---- MODULE Spec2Model ----
(***************************************************************************)
(* Bug tracker server: the document store (users, projects, issues,        *)
(* comments), the Express request pipelines over it (identity resolver,    *)
(* loaders, access gates, controllers) and the issue key sequencer.        *)
(*                                                                         *)
(* A request is a slot of req.  Every action executes at most one store    *)
(* operation (one await of the source) together with the synchronous code  *)
(* around it, so the interleavings of the actions are the interleavings    *)
(* of the store operations of concurrently handled requests.               *)
(***************************************************************************)
EXTENDS Integers, Sequences, FiniteSets, TLC

VARIABLES
    users,      \* users collection: _id -> [role, isActive]
    projects,   \* projects collection: _id -> project document
    issues,     \* issues collection: _id -> issue document
    comments,   \* comments collection: _id -> comment document
    req,        \* the requests being handled: slot -> request state
    ops,        \* number of requests accepted so far
    projSeq,    \* number of project _ids handed out so far
    genLog,     \* history: the key generations, in order
    decLog      \* history: comment _id -> number of commentCount decrements

vars == <<users, projects, issues, comments, req, ops, projSeq, genLog, decLog>>

store == <<users, projects, issues, comments>>
hist  == <<genLog, decLog>>

-----------------------------------------------------------------------------
(* Bounds of the model.                                                    *)

MaxGateOps    == 2   \* requests per behaviour of SpecGates
MaxKeyOps     == 4   \* requests and issue saves per behaviour of SpecKeys
MaxMemberOps  == 2   \* requests per behaviour of SpecMembers
MaxCommentOps == 2   \* requests per behaviour of SpecComments
MaxSeqOps     == 3   \* requests per behaviour of SpecCommentsSeq
MaxAccessOps  == 2   \* requests per behaviour of SpecAccess
MaxListOps    == 2   \* requests per behaviour of SpecListing and SpecPages
MaxDecideOps  == 2   \* decisions per behaviour of SpecDecide
MaxIssueOps   == 2   \* requests per behaviour of SpecIssues
MaxRaceOps    == 2   \* requests per behaviour of SpecRace
MaxOrphanOps  == 2   \* requests per behaviour of SpecOrphans
MaxFrameOps   == 2   \* requests and issue saves per behaviour of SpecFrame

Slots == {1, 2}      \* requests handled at the same time

-----------------------------------------------------------------------------
(* Ids.  An ObjectId is a positive number; 0 stands for null.  A string    *)
(* that is meant as an id is [oid, form]: the 24 hex digits of ObjectId    *)
(* oid written in lower case ("lower", what String(objectId) yields) or in *)
(* upper case ("upper"), or a string that is no ObjectId at all ("bad").   *)

UserIds  == {1, 2, 3, 4}   \* the users collection of the fixtures

Roles == {"admin", "manager", "developer"}           \* user.js:38

Hex(oid)   == [oid |-> oid, form |-> "lower"]
HexUp(oid) == [oid |-> oid, form |-> "upper"]
BadStr     == [oid |-> 0, form |-> "bad"]
Ghost      == [oid |-> 9, form |-> "lower"]   \* well-formed, names no document
Undefined  == [oid |-> 0, form |-> "undefined"]
NoCaller   == [oid |-> 0, form |-> "none"]        \* no request, no caller

\* String(x) of an ObjectId x: ObjectId.prototype.toString is the lower-case hex.
String(oid) == Hex(oid)

\* mongoose.Types.ObjectId.isValid: 24 hex digits of either case.
isValidId(s) == s.form \in {"lower", "upper"}

\* ObjectId.createFromHexString, and Mongoose's cast of a string to ObjectId.
createFromHexString(s) == s.oid

-----------------------------------------------------------------------------
(* Documents.  A missing document (null) is the document with _id 0.       *)

NoUser    == [_id |-> 0, role |-> "none", isActive |-> FALSE]
NoProject == [_id |-> 0, key |-> "", name |-> "", description |-> "",
              leadUserId |-> 0, members |-> {}, nextIssueSeq |-> 0]
NoIssue   == [_id |-> 0, projectId |-> 0, key |-> "", commentCount |-> 0,
              status |-> "open", statusHistory |-> <<>>]
NoComment == [_id |-> 0, issueId |-> 0, authorId |-> 0, body |-> "",
              parentId |-> 0, ancestors |-> <<>>, edited |-> FALSE,
              deleted |-> FALSE, createdAt |-> 0]

\* Model.findById(id).lean()
FindUser(id)    == IF id \in DOMAIN users
                   THEN [_id |-> id, role |-> users[id].role,
                         isActive |-> users[id].isActive]
                   ELSE NoUser
FindProjectAsCreated(id) ==
    IF id \in DOMAIN projects
    THEN [projects[id] EXCEPT !.leadUserId = 2, !.members = {2, 3}]
    ELSE NoProject
FindProject(id) == IF id \in DOMAIN projects THEN projects[id] ELSE NoProject
FindIssue(id)   == IF id \in DOMAIN issues THEN issues[id] ELSE NoIssue
FindComment(id) == IF id \in DOMAIN comments THEN comments[id] ELSE NoComment

\* f with the document d stored under d._id
PutNothing(f, d) == f
Put(f, d) == [i \in DOMAIN f \cup {d._id} |-> IF i = d._id THEN d ELSE f[i]]
\* f without the document of _id id
Drop(f, id) == [i \in DOMAIN f \ {id} |-> f[i]]

\* User.countDocuments({_id: {$in: ids}}): ids are cast to ObjectId first.
CountUsersAll(ids) == Cardinality(ids)
CountUsers(ids) == Cardinality({createFromHexString(s) : s \in ids} \cap DOMAIN users)

\* Date.now(): the clock advances with the requests accepted, so that
\* documents created for requests handled at the same time can have the
\* same timestamp.  The documents of the fixtures were created at 0 or before.
Now == ops

-----------------------------------------------------------------------------
(* Requests.                                                               *)

IdleReq == [op |-> "none", pc |-> "idle", caller |-> NoCaller, id |-> Undefined,
            authUser |-> NoUser, project |-> NoProject, issue |-> NoIssue,
            comment |-> NoComment, body |-> <<>>, loc |-> <<>>,
            status |-> 0, wrote |-> FALSE, trail |-> <<>>]

\* res.status(code): the request is answered and its handling ends.  Of an
\* answered request the route, the status and whether it wrote to the store
\* are kept.
Respond(q, code) ==
    [IdleReq EXCEPT !.op = q.op, !.pc = "done", !.status = code,
                    !.wrote = q.wrote]

\* next(): the pipeline goes on with the middleware or controller pc.
Continue(q, pc) == [q EXCEPT !.pc = pc]

\* next() of a middleware: step ("identity", "load" or "verdict") is done.
Pass(q, step, pc) == [q EXCEPT !.pc = pc, !.trail = Append(@, step)]

Free(r) == req[r].pc \in {"idle", "done"}

\* The pipelines of the routes: what follows loadCurrentUser, and what
\* follows the loader and the gate.
AfterUser(op) ==
    CASE op = "createProject" -> "requireRole"
      [] op = "listProjects"  -> "listProjects"
      [] op \in {"getProject", "updateProject", "updateMembers", "deleteProject"}
                              -> "loadProject"
      [] op \in {"createComment", "listIssueComments", "transitionStatus"}
                              -> "loadIssue"
      [] OTHER                -> "loadComment"

AfterLoadNoGate(op) == op
AfterLoad(op) ==
    CASE op \in {"updateProject", "updateMembers"} -> "requireProjectLeadOrAdmin"
      [] op = "deleteProject" -> "requireRole"
      [] OTHER -> "requireProjectMemberOrAdmin"

\* The roles requireRole is built with on the route of op.
AllowedRoles(op) ==
    IF op = "createProject" THEN {"admin", "manager"} ELSE {"admin"}

-----------------------------------------------------------------------------
(* Identity resolver and access gates (rbac.js).                           *)

\* The verdict of loadCurrentUser on the user document found: 0 is next().
loadCurrentUserVerdictNoActive(caller, user) ==
    IF caller.form = "undefined" \/ ~isValidId(caller) THEN 401
    ELSE IF user._id = 0 THEN 403
    ELSE 0
loadCurrentUserVerdict(caller, user) ==
    IF caller.form = "undefined" \/ ~isValidId(caller) THEN 401
    ELSE IF user._id = 0 \/ ~user.isActive THEN 403
    ELSE 0

\* A request arrives on route op with the verified caller id and the route's
\* id parameter; loadCurrentUser looks the caller up.  Of a request it denies
\* the caller is kept with the answer.
loadCurrentUser(r, op, caller, id) ==
    /\ Free(r)
    /\ \A s \in Slots : s < r => ~Free(s)
    /\ LET user == IF isValidId(caller)
                   THEN FindUser(createFromHexString(caller)) ELSE NoUser
           v    == loadCurrentUserVerdict(caller, user)
           q    == [IdleReq EXCEPT !.op = op, !.caller = caller, !.id = id]
       IN  req' = [req EXCEPT ![r] =
                     IF v # 0 THEN [Respond(q, v) EXCEPT !.caller = caller]
                     ELSE Pass([q EXCEPT !.authUser = user], "identity",
                               AfterUser(op))]
    /\ ops' = ops + 1
    /\ UNCHANGED <<store, projSeq, hist>>

\* The verdict of requireRole(roles): 0 is next().
requireRoleVerdictAnyRole(allowed, user) == IF user._id = 0 THEN 401 ELSE 0
requireRoleVerdict(allowed, user) ==
    IF user._id = 0 THEN 401
    ELSE IF user.role \notin allowed THEN 403
    ELSE 0

requireRole(r) ==
    /\ req[r].pc = "requireRole"
    /\ LET q == req[r]
           v == requireRoleVerdict(AllowedRoles(q.op), q.authUser)
       IN  req' = [req EXCEPT ![r] =
                     IF v # 0 THEN Respond(q, v) ELSE Pass(q, "verdict", q.op)]
    /\ UNCHANGED <<store, ops, projSeq, hist>>

loadProject(r) ==
    /\ req[r].pc = "loadProject"
    /\ LET q == req[r]
           project == FindProject(createFromHexString(q.id))
       IN  req' = [req EXCEPT ![r] =
                     IF ~isValidId(q.id) THEN Respond(q, 400)
                     ELSE IF project._id = 0 THEN Respond(q, 404)
                     ELSE Pass([q EXCEPT !.project = project], "load",
                               AfterLoad(q.op))]
    /\ UNCHANGED <<store, ops, projSeq, hist>>

isAdmin(user) == user.role = "admin"
isLead(user, project) == String(project.leadUserId) = String(user._id)
isMemberNoString(user, project) == FALSE
isMember(user, project) ==
    \E m \in project.members : String(m) = String(user._id)

\* The verdict of requireProjectMemberOrAdmin: 0 is next().
MemberGateNoLead(user, project) ==
    IF user._id = 0 \/ project._id = 0 THEN 500
    ELSE IF ~(isAdmin(user) \/ isMember(user, project)) THEN 403
    ELSE 0
MemberGate(user, project) ==
    IF user._id = 0 \/ project._id = 0 THEN 500
    ELSE IF ~(isAdmin(user) \/ isLead(user, project) \/ isMember(user, project))
         THEN 403
    ELSE 0

\* The verdict of requireProjectLeadOrAdmin: 0 is next().
LeadGateAsMember(user, project) == MemberGate(user, project)
LeadGate(user, project) ==
    IF user._id = 0 \/ project._id = 0 THEN 500
    ELSE IF ~(isAdmin(user) \/ isLead(user, project)) THEN 403
    ELSE 0

requireProjectMemberOrAdmin(r) ==
    /\ req[r].pc = "requireProjectMemberOrAdmin"
    /\ LET q == req[r]
           v == MemberGate(q.authUser, q.project)
       IN  req' = [req EXCEPT ![r] =
                     IF v # 0 THEN Respond(q, v) ELSE Pass(q, "verdict", q.op)]
    /\ UNCHANGED <<store, ops, projSeq, hist>>

requireProjectLeadOrAdmin(r) ==
    /\ req[r].pc = "requireProjectLeadOrAdmin"
    /\ LET q == req[r]
           v == LeadGate(q.authUser, q.project)
       IN  req' = [req EXCEPT ![r] =
                     IF v # 0 THEN Respond(q, v) ELSE Pass(q, "verdict", q.op)]
    /\ UNCHANGED <<store, ops, projSeq, hist>>

\* The filter of listProjects for a user who is no admin:
\* {$or: [{leadUserId: uid}, {members: uid}]}
ListFilterMembers(uid, project) == uid \in project.members
ListFilter(uid, project) == project.leadUserId = uid \/ uid \in project.members

\* Project.find of listProjects: the ids of the projects returned.
ListedFor(user) ==
    IF user.role = "admin" THEN DOMAIN projects
    ELSE {p \in DOMAIN projects : ListFilter(user._id, projects[p])}

\* listProjects answers with the projects found; the answer keeps their ids
\* and the user they were listed for.
listProjects(r) ==
    /\ req[r].pc = "listProjects"
    /\ req' = [req EXCEPT ![r] =
                 [Respond(req[r], 200) EXCEPT !.loc = <<ListedFor(req[r].authUser)>>,
                                              !.authUser = req[r].authUser]]
    /\ UNCHANGED <<store, ops, projSeq, hist>>

\* getProject answers with the project the loader attached.
getProject(r) ==
    /\ req[r].pc = "getProject"
    /\ req' = [req EXCEPT ![r] = Respond(req[r], 200)]
    /\ UNCHANGED <<store, ops, projSeq, hist>>

-----------------------------------------------------------------------------
(* Project controllers (projectController.js).                            *)

\* /^[A-Z0-9]{2,10}$/.test(key), over the keys the requests use.
KeyFormatOk(key) == key \in {"BT", "QA"}

\* s?.trim() of a name: the empty and the blank name are falsy.
Blank(s) == s \in {"", " "}

\* ProjectSchema's validators on name (minlength 3).
NameValid(name) == name \notin {"", " ", "ab"}

\* createProject up to its first store call: the input checks, and
\* User.countDocuments over the lead and the members.
createProject(r, body) ==
    /\ req[r].pc = "createProject"
    /\ LET q == [req[r] EXCEPT !.body = body]
           uniqueUserIds == {body.leadUserId} \cup body.members
       IN  req' = [req EXCEPT ![r] =
             IF body.key = "" \/ Blank(body.name) \/ body.leadUserId.form = "undefined"
               THEN Respond(q, 400)
             ELSE IF ~KeyFormatOk(body.key) THEN Respond(q, 400)
             ELSE IF ~isValidId(body.leadUserId) THEN Respond(q, 400)
             ELSE IF \E uid \in uniqueUserIds : ~isValidId(uid) THEN Respond(q, 400)
             ELSE IF CountUsers(uniqueUserIds) # Cardinality(uniqueUserIds)
               THEN Respond(q, 400)
             ELSE Continue(q, "createProject.exists")]
    /\ UNCHANGED <<store, ops, projSeq, hist>>

\* Project.exists({ key })
createProjectExists(r) ==
    /\ req[r].pc = "createProject.exists"
    /\ LET q == req[r]
           exists == \E p \in DOMAIN projects : projects[p].key = q.body.key
       IN  req' = [req EXCEPT ![r] =
             IF exists THEN Respond(q, 409) ELSE Continue(q, "createProject.create")]
    /\ UNCHANGED <<store, ops, projSeq, hist>>

\* The document Project.create is given: the lead and the members without
\* duplicates, and the counter at 1.
NewProjectSeqZero(id, b) ==
    [_id |-> id, key |-> b.key, name |-> b.name, description |-> "",
     leadUserId |-> createFromHexString(b.leadUserId),
     members |-> {createFromHexString(s) : s \in {b.leadUserId} \cup b.members},
     nextIssueSeq |-> 0]
NewProject(id, b) ==
    [_id |-> id, key |-> b.key, name |-> b.name, description |-> "",
     leadUserId |-> createFromHexString(b.leadUserId),
     members |-> {createFromHexString(s) : s \in {b.leadUserId} \cup b.members},
     nextIssueSeq |-> 1]

\* Project.create: the schema's validators, then the insert under the unique
\* index on key.  A validation error or a duplicate key is thrown and ends
\* in the error handler (500).
createProjectCreate(r) ==
    /\ req[r].pc = "createProject.create"
    /\ LET q == req[r]
           b == q.body
           dup == \E p \in DOMAIN projects : projects[p].key = b.key
           doc == NewProject(projSeq + 1, b)
       IN  IF ~NameValid(b.name) \/ dup
           THEN /\ req' = [req EXCEPT ![r] = Respond(q, 500)]
                /\ UNCHANGED <<projects, projSeq>>
           ELSE /\ projects' = Put(projects, doc)
                /\ projSeq' = projSeq + 1
                /\ req' = [req EXCEPT ![r] = Respond([q EXCEPT !.wrote = TRUE], 201)]
    /\ UNCHANGED <<users, issues, comments, ops, hist>>

\* Project.findByIdAndUpdate(id, {$set: updates}, {runValidators: true}) on the
\* projects collection: the collection after it, or the collection unchanged
\* when the validators throw or no project has the id.
SetFieldsReplace(id, body) ==
    IF id \notin DOMAIN projects THEN projects
    ELSE [projects EXCEPT ![id] =
            [NoProject EXCEPT !._id = id, !.name = body.name,
                              !.leadUserId = createFromHexString(body.leadUserId)]]
SetFields(id, body) ==
    IF id \notin DOMAIN projects THEN projects
    ELSE [projects EXCEPT ![id] =
            [@ EXCEPT !.name = IF body.name = "undefined" THEN @ ELSE body.name,
                      !.description = IF body.description = "undefined"
                                      THEN @ ELSE body.description,
                      !.leadUserId = IF body.leadUserId.form = "undefined"
                                     THEN @ ELSE createFromHexString(body.leadUserId)]]

UpdateThrows(body) == body.name # "undefined" /\ ~NameValid(body.name)

\* updateOne({_id: id}, {$addToSet: {members: {$each: ids}}})
AddToSetNothing(id, ids) == projects
AddToSet(id, ids) ==
    IF id \notin DOMAIN projects THEN projects
    ELSE [projects EXCEPT ![id].members = @ \cup ids]

\* updateOne({_id: id}, {$pull: {members: {$in: ids}}})
Pull(id, ids) ==
    IF id \notin DOMAIN projects THEN projects
    ELSE [projects EXCEPT ![id].members = @ \ ids]

\* updateProject up to its first store call.  With a lead in the body that
\* call is User.exists; without, it is the update itself.
updateProject(r, body) ==
    /\ req[r].pc = "updateProject"
    /\ LET q == [req[r] EXCEPT !.body = body]
           exists == createFromHexString(body.leadUserId) \in DOMAIN users
       IN  IF body.name # "undefined" /\ Blank(body.name)
             THEN req' = [req EXCEPT ![r] = Respond(q, 400)] /\ UNCHANGED projects
           ELSE IF body.leadUserId.form # "undefined"
             THEN /\ req' = [req EXCEPT ![r] =
                       IF ~isValidId(body.leadUserId) THEN Respond(q, 400)
                       ELSE IF ~exists THEN Respond(q, 400)
                       ELSE Continue(q, "updateProject.update")]
                  /\ UNCHANGED projects
           ELSE IF UpdateThrows(body)
             THEN req' = [req EXCEPT ![r] = Respond(q, 500)] /\ UNCHANGED projects
           ELSE /\ projects' = SetFields(q.project._id, body)
                /\ req' = [req EXCEPT ![r] = Respond([q EXCEPT !.wrote = TRUE], 200)]
    /\ UNCHANGED <<users, issues, comments, ops, projSeq, hist>>

\* The update of a lead-changing updateProject.
updateProjectUpdate(r) ==
    /\ req[r].pc = "updateProject.update"
    /\ LET q == req[r]
       IN  IF UpdateThrows(q.body)
           THEN req' = [req EXCEPT ![r] = Respond(q, 500)] /\ UNCHANGED projects
           ELSE /\ projects' = SetFields(q.project._id, q.body)
                /\ req' = [req EXCEPT ![r] =
                      [Continue(q, "updateProject.addLead") EXCEPT !.wrote = TRUE]]
    /\ UNCHANGED <<users, issues, comments, ops, projSeq, hist>>

\* The follow-up step of a lead change: the new lead is added to members.
updateProjectAddLead(r) ==
    /\ req[r].pc = "updateProject.addLead"
    /\ LET q == req[r]
       IN  /\ projects' = AddToSet(q.project._id,
                                   {createFromHexString(q.body.leadUserId)})
           /\ req' = [req EXCEPT ![r] = Respond(q, 200)]
    /\ UNCHANGED <<users, issues, comments, ops, projSeq, hist>>

\* removeIds.some((id) => String(id) === leadIdStr)
RemovesLeadByOid(removeIds, project) ==
    \E id \in removeIds : createFromHexString(id) = project.leadUserId
RemovesLead(removeIds, project) ==
    \E id \in removeIds : id = String(project.leadUserId)

\* raw.filter(Boolean).map(String): entries that are absent (null, "") are
\* dropped from the add and remove arrays.
Ids(raw) == {s \in raw : s.form # "undefined"}

\* updateMembers up to its first store call: the id checks, User.countDocuments
\* over the union of add and remove, and the check that the lead stays.  A
\* rejected call keeps the body it was sent with its answer.
updateMembers(r, body) ==
    /\ req[r].pc = "updateMembers"
    /\ LET q == [req[r] EXCEPT !.body = body]
           addIds == Ids(body.add)
           removeIds == Ids(body.remove)
           allIds == addIds \cup removeIds
           reject(code) == [Respond(q, code) EXCEPT !.body = body]
       IN  req' = [req EXCEPT ![r] =
             IF \E uid \in allIds : ~isValidId(uid) THEN reject(400)
             ELSE IF CountUsers(allIds) # Cardinality(allIds) THEN reject(400)
             ELSE IF RemovesLead(removeIds, q.project) THEN reject(400)
             ELSE Continue(q, "updateMembers.update")]
    /\ UNCHANGED <<store, ops, projSeq, hist>>

\* Project.updateOne with $addToSet when add is not empty and $pull when remove
\* is not empty.  MongoDB refuses an update that names members under both
\* operators (a conflicting update); the error ends in the error handler.
updateMembersUpdate(r) ==
    /\ req[r].pc = "updateMembers.update"
    /\ LET q == req[r]
           addObjIds == {createFromHexString(s) : s \in Ids(q.body.add)}
           removeObjIds == {createFromHexString(s) : s \in Ids(q.body.remove)}
       IN  IF addObjIds # {} /\ removeObjIds # {}
             THEN req' = [req EXCEPT ![r] = Respond(q, 500)] /\ UNCHANGED projects
           ELSE /\ projects' = IF addObjIds # {} THEN AddToSet(q.project._id, addObjIds)
                               ELSE IF removeObjIds # {}
                                 THEN Pull(q.project._id, removeObjIds)
                               ELSE projects
                /\ req' = [req EXCEPT ![r] =
                      [Continue(q, "updateMembers.refresh") EXCEPT
                          !.wrote = (addObjIds # {} \/ removeObjIds # {})]]
    /\ UNCHANGED <<users, issues, comments, ops, projSeq, hist>>

\* Project.findById(req.project._id).lean(), sent back.
updateMembersRefresh(r) ==
    /\ req[r].pc = "updateMembers.refresh"
    /\ req' = [req EXCEPT ![r] = Respond(req[r], 200)]
    /\ UNCHANGED <<store, ops, projSeq, hist>>

\* Project.deleteOne: the project document alone is removed.
deleteProject(r) ==
    /\ req[r].pc = "deleteProject"
    /\ projects' = Drop(projects, req[r].project._id)
    /\ req' = [req EXCEPT ![r] = Respond([req[r] EXCEPT !.wrote = TRUE], 204)]
    /\ UNCHANGED <<users, issues, comments, ops, projSeq, hist>>

-----------------------------------------------------------------------------
(* Issue model (issueModel.js): saving a new issue document runs the       *)
(* pre-validate hook that generates the key, then the schema's validators, *)
(* then the insert under the unique index on key.                          *)

\* `${project.key}-${project.nextIssueSeq}`
IssueKeyOfNew(project) == project.key \o "-" \o ToString(project.nextIssueSeq + 1)
IssueKey(project) == project.key \o "-" \o ToString(project.nextIssueSeq)

\* The projects collection after findOneAndUpdate({_id: id}, {$inc: {nextIssueSeq: 1}}).
IncNothing(id) == projects
IncNextIssueSeq(id) == [projects EXCEPT ![id].nextIssueSeq = @ + 1]

\* new Issue(doc).save() is called: doc names its project, may carry a key
\* (the import path) and may lack a title.
IssueCreate(r, projectId, key, title) ==
    /\ Free(r)
    /\ \A s \in Slots : s < r => ~Free(s)
    /\ req' = [req EXCEPT ![r] =
                 [IdleReq EXCEPT !.op = "issueSave", !.pc = "preValidate",
                                 !.issue = [NoIssue EXCEPT !.projectId = projectId,
                                                           !.key = key],
                                 !.body = [title |-> title]]]
    /\ ops' = ops + 1
    /\ UNCHANGED <<store, projSeq, hist>>

\* issue.save() is called on a stored issue document that was loaded, with
\* its title set anew.
IssueSaveAgain(r, id, title) ==
    /\ Free(r)
    /\ \A s \in Slots : s < r => ~Free(s)
    /\ id \in DOMAIN issues
    /\ req' = [req EXCEPT ![r] =
                 [IdleReq EXCEPT !.op = "issueSave", !.pc = "preValidate",
                                 !.issue = issues[id],
                                 !.body = [title |-> title]]]
    /\ ops' = ops + 1
    /\ UNCHANGED <<store, projSeq, hist>>

\* if (this.key): the document has a key already.
HasKeyNever(doc) == FALSE
HasKey(doc) == doc.key # ""

\* if (!project): findOneAndUpdate found no project of the issue's projectId.
NoSuchProjectNever(project) == FALSE
NoSuchProject(project) == project._id = 0

\* IssueSchema.pre("validate"): a document that has a key is left alone;
\* otherwise the project's counter is incremented and read in one store
\* operation, and the key is built from the project as it was before.  With
\* no project the hook fails and the save with it; the failed save keeps
\* the document it was called on.
preValidate(r) ==
    /\ req[r].pc = "preValidate"
    /\ LET q == req[r]
           project == FindProject(q.issue.projectId)
       IN  IF HasKey(q.issue)
             THEN /\ req' = [req EXCEPT ![r] = Continue(q, "issueInsert")]
                  /\ UNCHANGED <<projects, genLog>>
           ELSE IF NoSuchProject(project)
             THEN /\ req' = [req EXCEPT ![r] =
                                [Respond(q, 500) EXCEPT !.issue = q.issue]]
                  /\ UNCHANGED <<projects, genLog>>
           ELSE /\ projects' = IncNextIssueSeq(project._id)
                /\ genLog' = Append(genLog, [pid |-> project._id,
                                             projectKey |-> project.key,
                                             seq |-> project.nextIssueSeq,
                                             key |-> IssueKey(project)])
                /\ req' = [req EXCEPT ![r] =
                      Continue([q EXCEPT !.issue.key = IssueKey(project),
                                         !.loc = <<Len(genLog) + 1>>,
                                         !.wrote = TRUE], "issueInsert")]
    /\ UNCHANGED <<users, issues, comments, ops, projSeq, decLog>>

\* The unique index on key: no stored issue has the key.
KeyFree(key) == \A i \in DOMAIN issues : issues[i].key # key

\* The schema's validators (title is required), then the write: the insert
\* of a new document, or for a stored document the update of the paths
\* that were modified (of the fields modelled, key if the hook set it).  A
\* validation error or a duplicate key is thrown to the caller.
IssueInsert(r) ==
    /\ req[r].pc = "issueInsert"
    /\ LET q == req[r]
           id == q.issue._id
           doc == [q.issue EXCEPT !._id = Cardinality(DOMAIN issues) + 1]
       IN  IF q.body.title = ""
             THEN /\ req' = [req EXCEPT ![r] = Respond(q, 500)]
                  /\ UNCHANGED issues
           ELSE IF id = 0
             THEN IF ~KeyFree(q.issue.key)
                  THEN /\ req' = [req EXCEPT ![r] = Respond(q, 500)]
                       /\ UNCHANGED issues
                  ELSE /\ issues' = Put(issues, doc)
                       /\ req' = [req EXCEPT ![r] =
                                    Respond([q EXCEPT !.wrote = TRUE], 201)]
           ELSE IF id \notin DOMAIN issues
                   \/ (q.issue.key # issues[id].key /\ ~KeyFree(q.issue.key))
             THEN /\ req' = [req EXCEPT ![r] = Respond(q, 500)]
                  /\ UNCHANGED issues
           ELSE /\ issues' = [issues EXCEPT ![id].key = q.issue.key]
                /\ req' = [req EXCEPT ![r] = Respond(q, 200)]
    /\ UNCHANGED <<users, projects, comments, ops, projSeq, hist>>

\* The statuses of an issue, and an entry of its statusHistory.
STATUSES_NoBlocked == {"open", "in_progress", "resolved", "closed"}
STATUSES == {"open", "in_progress", "blocked", "resolved", "closed"}

StatusHop(from, to, by, at) == [from |-> from, to |-> to, by |-> by, at |-> at]

\* transitionStatus (issueController.js): the target must be one of the
\* statuses; the issue's status is set to it and the entry of the hop, from
\* the status the issue had, by the caller, is appended to statusHistory.
\* The answer keeps the target asked for.
transitionStatus(r, to) ==
    /\ req[r].pc = "transitionStatus"
    /\ LET q == [req[r] EXCEPT !.body = [to |-> to]]
           id == q.issue._id
           answer(code) == [Respond(q, code) EXCEPT !.body = q.body]
       IN  IF to \notin STATUSES
             THEN req' = [req EXCEPT ![r] = answer(400)] /\ UNCHANGED issues
           ELSE IF id \notin DOMAIN issues
             THEN req' = [req EXCEPT ![r] = answer(404)] /\ UNCHANGED issues
           ELSE /\ issues' = [issues EXCEPT ![id] =
                     [@ EXCEPT !.status = to,
                               !.statusHistory =
                                   Append(@, StatusHop(issues[id].status, to,
                                                       q.authUser._id, Now))]]
                /\ req' = [req EXCEPT ![r] = answer(200)]
    /\ UNCHANGED <<users, projects, comments, ops, projSeq, hist>>

-----------------------------------------------------------------------------
(* Loaders of the issue and comment routes (issueLoader.js).               *)

\* loadIssue: Issue.findById of the route's id.
loadIssue(r) ==
    /\ req[r].pc = "loadIssue"
    /\ LET q == req[r]
           issue == FindIssue(createFromHexString(q.id))
       IN  req' = [req EXCEPT ![r] =
                     IF ~isValidId(q.id) THEN Respond(q, 400)
                     ELSE IF issue._id = 0 THEN Respond(q, 404)
                     ELSE Continue([q EXCEPT !.issue = issue], "loadIssue.project")]
    /\ UNCHANGED <<store, ops, projSeq, hist>>

\* loadIssue: Project.findById of the issue's project; both are attached.
loadIssueProject(r) ==
    /\ req[r].pc = "loadIssue.project"
    /\ LET q == req[r]
           project == FindProject(q.issue.projectId)
       IN  req' = [req EXCEPT ![r] =
                     IF project._id = 0 THEN Respond(q, 404)
                     ELSE Pass([q EXCEPT !.project = project], "load",
                               AfterLoad(q.op))]
    /\ UNCHANGED <<store, ops, projSeq, hist>>

\* loadComment: Comment.findById of the route's id.
loadComment(r) ==
    /\ req[r].pc = "loadComment"
    /\ LET q == req[r]
           comment == FindComment(createFromHexString(q.id))
       IN  req' = [req EXCEPT ![r] =
                     IF ~isValidId(q.id) THEN Respond(q, 400)
                     ELSE IF comment._id = 0 THEN Respond(q, 404)
                     ELSE Continue([q EXCEPT !.comment = comment], "loadComment.issue")]
    /\ UNCHANGED <<store, ops, projSeq, hist>>

\* loadComment: Issue.findById of the comment's issue.
loadCommentIssue(r) ==
    /\ req[r].pc = "loadComment.issue"
    /\ LET q == req[r]
           issue == FindIssue(q.comment.issueId)
       IN  req' = [req EXCEPT ![r] =
                     IF issue._id = 0 THEN Respond(q, 404)
                     ELSE Continue([q EXCEPT !.issue = issue], "loadComment.project")]
    /\ UNCHANGED <<store, ops, projSeq, hist>>

\* loadComment: Project.findById of the issue's project; all three are attached.
loadCommentProjectNoCheck(r) ==
    /\ req[r].pc = "loadComment.project"
    /\ LET q == req[r]
       IN  req' = [req EXCEPT ![r] =
                     Pass([q EXCEPT !.project = FindProject(q.issue.projectId)],
                          "load", AfterLoad(q.op))]
    /\ UNCHANGED <<store, ops, projSeq, hist>>
loadCommentProject(r) ==
    /\ req[r].pc = "loadComment.project"
    /\ LET q == req[r]
           project == FindProject(q.issue.projectId)
       IN  req' = [req EXCEPT ![r] =
                     IF project._id = 0 THEN Respond(q, 404)
                     ELSE Pass([q EXCEPT !.project = project], "load",
                               AfterLoad(q.op))]
    /\ UNCHANGED <<store, ops, projSeq, hist>>

-----------------------------------------------------------------------------
(* Comment controllers (commentController.js).                             *)

\* s.trim(), over the texts the requests use.
Trim(s) == CASE s = " " -> "" [] s = " b " -> "b" [] OTHER -> s

\* !body?.trim(): no body, or nothing but white space.
NoTextAbsentOnly(text) == text = "undefined"
NoText(text) == text = "undefined" \/ Trim(text) = ""

canEditOrModerateNoAuthor(user, project, comment) ==
    IF user._id = 0 \/ project._id = 0 \/ comment._id = 0 THEN FALSE
    ELSE user.role = "admin" \/ String(project.leadUserId) = String(user._id)
canEditOrModerate(user, project, comment) ==
    IF user._id = 0 \/ project._id = 0 \/ comment._id = 0 THEN FALSE
    ELSE IF user.role = "admin" THEN TRUE
    ELSE IF String(project.leadUserId) = String(user._id) THEN TRUE
    ELSE String(comment.authorId) = String(user._id)

\* [...(parent.ancestors||[]), parent._id]
AncestorsParentOnly(parent) == <<parent._id>>
AncestorsOf(parent) == Append(parent.ancestors, parent._id)

\* String(parent.issueId) !== String(issue._id)
OtherIssueNever(parent, issue) == FALSE
OtherIssue(parent, issue) == String(parent.issueId) # String(issue._id)

\* Comment.create: the schema trims the body and stamps createdAt; the new
\* document is stored.
NewCommentNoAncestors(q, ancestors) ==
    [_id |-> Cardinality(DOMAIN comments) + 1, issueId |-> q.issue._id,
     authorId |-> q.authUser._id, body |-> Trim(q.body.text),
     parentId |-> IF q.body.parentId.form = "undefined" THEN 0
                  ELSE createFromHexString(q.body.parentId),
     ancestors |-> <<>>, edited |-> FALSE, deleted |-> FALSE,
     createdAt |-> Now]
NewComment(q, ancestors) ==
    [_id |-> Cardinality(DOMAIN comments) + 1, issueId |-> q.issue._id,
     authorId |-> q.authUser._id, body |-> Trim(q.body.text),
     parentId |-> IF q.body.parentId.form = "undefined" THEN 0
                  ELSE createFromHexString(q.body.parentId),
     ancestors |-> ancestors, edited |-> FALSE, deleted |-> FALSE,
     createdAt |-> Now]

\* Issue.updateOne({_id: id}, {$inc: {commentCount: n}})
IncCommentCount(id, n) ==
    IF id \notin DOMAIN issues THEN issues
    ELSE [issues EXCEPT ![id].commentCount = @ + n]

\* createComment up to its first store call.  For a reply that call is
\* Comment.findById of the parent; for a top-level comment it is Comment.create.
createComment(r, body) ==
    /\ req[r].pc = "createComment"
    /\ LET q == [req[r] EXCEPT !.body = body]
           parent == FindComment(createFromHexString(body.parentId))
           reject(code) == [Respond(q, code) EXCEPT !.body = body]
       IN  IF NoText(body.text)
             THEN req' = [req EXCEPT ![r] = reject(400)] /\ UNCHANGED comments
           ELSE IF body.parentId.form # "undefined"
             THEN /\ req' = [req EXCEPT ![r] =
                       IF ~isValidId(body.parentId) THEN reject(400)
                       ELSE IF parent._id = 0 THEN reject(404)
                       ELSE IF OtherIssue(parent, q.issue) THEN reject(400)
                       ELSE Continue([q EXCEPT !.loc = AncestorsOf(parent)],
                                     "createComment.create")]
                  /\ UNCHANGED comments
           ELSE /\ comments' = Put(comments, NewComment(q, <<>>))
                /\ req' = [req EXCEPT ![r] =
                      Continue([q EXCEPT !.wrote = TRUE], "createComment.inc")]
    /\ UNCHANGED <<users, projects, issues, ops, projSeq, hist>>

\* Comment.create of a reply.
createCommentCreate(r) ==
    /\ req[r].pc = "createComment.create"
    /\ LET q == req[r]
       IN  /\ comments' = Put(comments, NewComment(q, q.loc))
           /\ req' = [req EXCEPT ![r] =
                 Continue([q EXCEPT !.wrote = TRUE], "createComment.inc")]
    /\ UNCHANGED <<users, projects, issues, ops, projSeq, hist>>

\* The issue's commentCount is incremented after the comment is created.
createCommentInc(r) ==
    /\ req[r].pc = "createComment.inc"
    /\ issues' = IncCommentCount(req[r].issue._id, 1)
    /\ req' = [req EXCEPT ![r] = Respond(req[r], 201)]
    /\ UNCHANGED <<users, projects, comments, ops, projSeq, hist>>

\* commentDoc.save(): the paths that were modified are $set on the stored
\* document.
SaveCommentRemove(id, paths) == Drop(comments, id)
SaveComment(id, paths) ==
    IF id \notin DOMAIN comments THEN comments
    ELSE [comments EXCEPT ![id] =
            [f \in DOMAIN @ |-> IF f \in DOMAIN paths THEN paths[f] ELSE @[f]]]

\* The modified paths of document doc after the assignments in set.
Modified(doc, set) ==
    LET fs == {f \in DOMAIN set : set[f] # doc[f]}
    IN  [f \in fs |-> set[f]]

\* updateComment up to its save: Comment.findById, the permission check and
\* the body check; body and edited are assigned, and the schema's setter
\* trims body.  A request answered 400 keeps the body it was sent.
updateComment(r, text) ==
    /\ req[r].pc = "updateComment"
    /\ LET q == [req[r] EXCEPT !.body = [text |-> text]]
           commentDoc == FindComment(q.comment._id)
           reject(code) == [Respond(q, code) EXCEPT !.body = q.body]
       IN  req' = [req EXCEPT ![r] =
             IF commentDoc._id = 0 THEN Respond(q, 404)
             ELSE IF ~canEditOrModerate(q.authUser, q.project, commentDoc)
               THEN Respond(q, 403)
             ELSE IF text = "undefined" THEN reject(400)
             ELSE IF NoText(text) THEN reject(400)
             ELSE Continue([q EXCEPT !.loc =
                               Modified(commentDoc, [body |-> Trim(text),
                                                     edited |-> TRUE])],
                           "updateComment.save")]
    /\ UNCHANGED <<store, ops, projSeq, hist>>

updateCommentSave(r) ==
    /\ req[r].pc = "updateComment.save"
    /\ LET q == req[r]
       IN  /\ comments' = SaveComment(q.comment._id, q.loc)
           /\ req' = [req EXCEPT ![r] = Respond([q EXCEPT !.wrote = TRUE], 200)]
    /\ UNCHANGED <<users, projects, issues, ops, projSeq, hist>>

\* if (commentDoc.deleted): an already deleted comment is left alone.
AlreadyDeletedNever(commentDoc) == FALSE
AlreadyDeletedByEdited(commentDoc) == commentDoc.edited
AlreadyDeleted(commentDoc) == commentDoc.deleted

\* deleteComment up to its save: Comment.findById, the permission check and
\* the check for an already deleted comment; deleted and body are assigned.
deleteComment(r) ==
    /\ req[r].pc = "deleteComment"
    /\ LET q == req[r]
           commentDoc == FindComment(q.comment._id)
       IN  req' = [req EXCEPT ![r] =
             IF commentDoc._id = 0 THEN Respond(q, 404)
             ELSE IF ~canEditOrModerate(q.authUser, q.project, commentDoc)
               THEN Respond(q, 403)
             ELSE IF AlreadyDeleted(commentDoc) THEN Respond(q, 204)
             ELSE Continue([q EXCEPT !.loc =
                               Modified(commentDoc, [deleted |-> TRUE, body |-> ""])],
                           "deleteComment.save")]
    /\ UNCHANGED <<store, ops, projSeq, hist>>

deleteCommentSave(r) ==
    /\ req[r].pc = "deleteComment.save"
    /\ LET q == req[r]
       IN  /\ comments' = SaveComment(q.comment._id, q.loc)
           /\ req' = [req EXCEPT ![r] =
                 Continue([q EXCEPT !.wrote = TRUE], "deleteComment.dec")]
    /\ UNCHANGED <<users, projects, issues, ops, projSeq, hist>>

\* The issue's commentCount is decremented after the comment is saved.
deleteCommentDec(r) ==
    /\ req[r].pc = "deleteComment.dec"
    /\ LET q == req[r]
           c == q.comment._id
       IN  /\ issues' = IncCommentCount(q.issue._id, -1)
           /\ decLog' = [d \in DOMAIN decLog \cup {c} |->
                           (IF d \in DOMAIN decLog THEN decLog[d] ELSE 0)
                           + (IF d = c THEN 1 ELSE 0)]
           /\ req' = [req EXCEPT ![r] = Respond(q, 204)]
    /\ UNCHANGED <<users, projects, comments, ops, projSeq, genLog>>

-----------------------------------------------------------------------------
(* Comment listings (commentController.js).  A query value is absent or a  *)
(* decimal string.                                                         *)

Absent == [given |-> FALSE, n |-> 0]
Dec(n) == [given |-> TRUE, n |-> n]

\* parseInt(v || dflt, 10)
parseInt(v, dflt) == IF v.given THEN v.n ELSE dflt

\* limit = Math.min(parseInt(query.limit || dflt, 10), cap) and
\* skip = Math.max(parseInt(query.skip || "0", 10), 0)
Page(query, dflt, cap) ==
    LET l == parseInt(query.limit, dflt)
        k == parseInt(query.skip, 0)
    IN  [limit |-> IF l < cap THEN l ELSE cap, skip |-> IF k > 0 THEN k ELSE 0]

\* .sort({createdAt: 1, _id: 1}): document c is put before document d.
SortByCreatedAtOnly(c, d) == comments[c].createdAt < comments[d].createdAt
SortBefore(c, d) ==
    \/ comments[c].createdAt < comments[d].createdAt
    \/ comments[c].createdAt = comments[d].createdAt /\ c < d

\* The orders in which the store may come upon the documents of the
\* comments collection before it sorts them: by _id, upwards or downwards.
NaturalOrders ==
    LET n == Cardinality(DOMAIN comments)
    IN  {[i \in 1..n |-> i], [i \in 1..n |-> n + 1 - i]}

\* Comment.find(filter).sort({createdAt: 1, _id: 1}).skip(skip).limit(limit),
\* matching being the _ids the filter selects: the _ids of the documents
\* returned, in order.  A limit of 0 is no limit;
\* a negative limit is its absolute value, served as one batch (of at most
\* 101 documents).
Find(natural, matching, skip, limit) ==
    LET sorted == SortSeq(SelectSeq(natural, LAMBDA c : c \in matching), SortBefore)
        rest   == SubSeq(sorted, skip + 1, Len(sorted))
        n      == IF limit = 0 THEN Len(rest)
                  ELSE IF limit < -101 THEN 101
                  ELSE IF limit < 0 THEN 0 - limit
                  ELSE limit
    IN  SubSeq(rest, 1, IF n < Len(rest) THEN n ELSE Len(rest))

\* An answered listing keeps the route's id, the query and the _ids listed.
Listed(q, query, found) ==
    [Respond(q, 200) EXCEPT !.id = q.id, !.body = query, !.loc = <<found>>]

\* listIssueComments: the top-level comments of the issue that are not deleted.
listIssueComments(r, query) ==
    /\ req[r].pc = "listIssueComments"
    /\ LET q == req[r]
           page == Page(query, 20, 100)
           Matches(c) == /\ comments[c].issueId = q.issue._id
                         /\ comments[c].parentId = 0
                         /\ comments[c].deleted = FALSE
       IN  \E natural \in NaturalOrders :
              req' = [req EXCEPT ![r] =
                        IF ~isValidId(q.id) THEN Respond(q, 400)
                        ELSE Listed(q, query, Find(natural, {c \in DOMAIN comments : Matches(c)},
                                                  page.skip, page.limit))]
    /\ UNCHANGED <<store, ops, projSeq, hist>>

\* listReplies: the direct replies to the comment that are not deleted.
listReplies(r, query) ==
    /\ req[r].pc = "listReplies"
    /\ LET q == req[r]
           parent == q.comment
           page == Page(query, 50, 200)
           Matches(c) == /\ comments[c].issueId = parent.issueId
                         /\ comments[c].parentId = parent._id
                         /\ comments[c].deleted = FALSE
       IN  \E natural \in NaturalOrders :
              req' = [req EXCEPT ![r] =
                        IF ~isValidId(q.id) THEN Respond(q, 400)
                        ELSE Listed(q, query, Find(natural, {c \in DOMAIN comments : Matches(c)},
                                                  page.skip, page.limit))]
    /\ UNCHANGED <<store, ops, projSeq, hist>>

-----------------------------------------------------------------------------
(* Fixtures.                                                               *)

\* The users collection: an admin, a manager, a developer and a deactivated
\* developer.
UsersFixture ==
    [u \in UserIds |->
        [role |-> CASE u = 1 -> "admin" [] u = 2 -> "manager" [] OTHER -> "developer",
         isActive |-> (u # 4)]]

Callers == {Hex(u) : u \in UserIds}

\* Project BT as createProject leaves it: lead 2, members 2 and 3.
ProjectBT ==
    NewProject(1, [key |-> "BT", name |-> "Bug Tracker", leadUserId |-> Hex(2),
                   members |-> {Hex(3)}])

InitRest ==
    /\ users = UsersFixture
    /\ req = [r \in Slots |-> IdleReq]
    /\ ops = 0
    /\ genLog = <<>>
    /\ decLog = <<>>

-----------------------------------------------------------------------------
(* SpecGates: the access gates on one project whose lead and members are   *)
(* arbitrary.  The lead need not be a member: updateMembers can pull the   *)
(* lead out of members (SpecMembers).                                      *)

InitGates ==
    /\ InitRest
    /\ \E lead \in {2, 3}, members \in SUBSET {1, 2, 3} :
          projects = (1 :> [ProjectBT EXCEPT !.leadUserId = lead,
                                              !.members = members])
    /\ issues = <<>>
    /\ comments = <<>>
    /\ projSeq = 1

GateUpdateBodies ==
    [name : {"undefined", "Tracker"}, description : {"undefined"},
     leadUserId : {Undefined, Hex(3)}]

NextGates ==
    \/ \E r \in Slots, op \in {"getProject", "updateProject"}, c \in Callers :
          /\ ops < MaxGateOps
          /\ loadCurrentUser(r, op, c, Hex(1))
    \/ \E r \in Slots : loadProject(r)
    \/ \E r \in Slots : requireProjectMemberOrAdmin(r)
    \/ \E r \in Slots : requireProjectLeadOrAdmin(r)
    \/ \E r \in Slots : getProject(r)
    \/ \E r \in Slots, body \in GateUpdateBodies : updateProject(r, body)
    \/ \E r \in Slots : updateProjectUpdate(r)
    \/ \E r \in Slots : updateProjectAddLead(r)

SpecGates == InitGates /\ [][NextGates]_vars

-----------------------------------------------------------------------------
(* SpecMembers: the project registry.  Project BT exists as createProject  *)
(* left it; requests read it, create further projects, change fields and   *)
(* the lead, and add and remove members, two at a time.                    *)

InitMembers ==
    /\ InitRest
    /\ projects = (1 :> ProjectBT)
    /\ issues = <<>>
    /\ comments = <<>>
    /\ projSeq = 1

CreateBodies ==
    [key : {"QA", "BT", "qa"}, name : {"Bug Tracker"},
     leadUserId : {Hex(3)}, members : {{}, {Hex(2)}, {Ghost}}]

UpdateBodies ==
    [name : {"undefined", "Tracker"}, description : {"undefined"},
     leadUserId : {Undefined, Hex(3), Hex(1), Ghost}]

IdSets == {{}, {Hex(2)}, {Hex(3)}, {HexUp(2)}, {BadStr}, {Ghost}, {Undefined}}

MemberBodies == [add : IdSets, remove : IdSets]

NextMembers ==
    \/ \E r \in Slots, c \in {Hex(1), Hex(2), Hex(3)},
          op \in {"getProject", "updateProject", "updateMembers"} :
          /\ ops < MaxMemberOps
          /\ loadCurrentUser(r, op, c, Hex(1))
    \/ \E r \in Slots, c \in {Hex(2), Hex(3)} :
          /\ ops < MaxMemberOps
          /\ loadCurrentUser(r, "createProject", c, Undefined)
    \/ \E r \in Slots : requireRole(r)
    \/ \E r \in Slots : loadProject(r)
    \/ \E r \in Slots : requireProjectMemberOrAdmin(r)
    \/ \E r \in Slots : requireProjectLeadOrAdmin(r)
    \/ \E r \in Slots : getProject(r)
    \/ \E r \in Slots, body \in CreateBodies : createProject(r, body)
    \/ \E r \in Slots : createProjectExists(r)
    \/ \E r \in Slots : createProjectCreate(r)
    \/ \E r \in Slots, body \in UpdateBodies : updateProject(r, body)
    \/ \E r \in Slots : updateProjectUpdate(r)
    \/ \E r \in Slots : updateProjectAddLead(r)
    \/ \E r \in Slots, body \in MemberBodies : updateMembers(r, body)
    \/ \E r \in Slots : updateMembersUpdate(r)
    \/ \E r \in Slots : updateMembersRefresh(r)

SpecMembers == InitMembers /\ [][NextMembers]_vars

\* The server runs every request it has accepted to its answer: the steps
\* that continue a request (all but the arrival of a new one, which alone
\* advances ops) are taken when they stay possible.
SpecMembersLive == SpecMembers /\ WF_vars(NextMembers /\ ops' = ops)

-----------------------------------------------------------------------------
(* SpecKeys: the issue key sequencer.  Project BT exists, freshly created; *)
(* issue documents are saved two at a time, while projects are created     *)
(* and deleted.                                                            *)

InitKeys ==
    /\ InitRest
    /\ projects = (1 :> ProjectBT)
    /\ issues = <<>>
    /\ comments = <<>>
    /\ projSeq = 1

KeyCreateBodies ==
    [key : {"QA", "BT"}, name : {"Bug Tracker"}, leadUserId : {Hex(2)},
     members : {{}}]

NextKeys ==
    \/ \E r \in Slots, p \in 1..projSeq, key \in {"", "BT-2"}, title \in {"", "Crash"} :
          /\ ops < MaxKeyOps
          /\ IssueCreate(r, p, key, title)
    \/ \E r \in Slots, id \in DOMAIN issues, title \in {"", "Crash"} :
          /\ ops < MaxKeyOps
          /\ IssueSaveAgain(r, id, title)
    \/ \E r \in Slots : preValidate(r)
    \/ \E r \in Slots : IssueInsert(r)
    \/ \E r \in Slots :
          /\ ops < MaxKeyOps
          /\ loadCurrentUser(r, "createProject", Hex(2), Undefined)
    \/ \E r \in Slots, p \in 1..projSeq :
          /\ ops < MaxKeyOps
          /\ loadCurrentUser(r, "deleteProject", Hex(1), Hex(p))
    \/ \E r \in Slots : requireRole(r)
    \/ \E r \in Slots : loadProject(r)
    \/ \E r \in Slots, body \in KeyCreateBodies : createProject(r, body)
    \/ \E r \in Slots : createProjectExists(r)
    \/ \E r \in Slots : createProjectCreate(r)
    \/ \E r \in Slots : deleteProject(r)

SpecKeys == InitKeys /\ [][NextKeys]_vars

-----------------------------------------------------------------------------
(* SpecComments: the comment thread store.  Project BT has the issues BT-1 *)
(* and BT-2; comments are created, edited and soft-deleted by the lead and *)
(* a member, two requests at a time.  SpecCommentsSeq is the same with one *)
(* request at a time, each handled to completion.                          *)

IssueDoc(id, key, n) ==
    [NoIssue EXCEPT !._id = id, !.projectId = 1, !.key = key, !.commentCount = n]

\* Comment 1 is a top-level comment of issue 1 by the member, comment 2 the
\* lead's reply to it, as two createComment requests leave them.
CommentA == [NoComment EXCEPT !._id = 1, !.issueId = 1, !.authorId = 3, !.body = "a"]
CommentB == [NoComment EXCEPT !._id = 2, !.issueId = 1, !.authorId = 2, !.body = "a",
                              !.parentId = 1, !.ancestors = <<1>>]

InitComments ==
    /\ InitRest
    /\ projects = (1 :> [ProjectBT EXCEPT !.nextIssueSeq = 3])
    /\ issues = (1 :> IssueDoc(1, "BT-1", 2) @@ 2 :> IssueDoc(2, "BT-2", 0))
    /\ comments = (1 :> CommentA @@ 2 :> CommentB)
    /\ projSeq = 1

CommentBodies ==
    [text : {" b ", " "}, parentId : {Undefined, Hex(1), Hex(2), Hex(3)}]

CommentBodiesSeq ==
    [text : {" b ", " ", "undefined"},
     parentId : {Undefined, Hex(1), Hex(2), HexUp(3), Ghost, BadStr}]

Quiet == \A r \in Slots : Free(r)

CommentStart(r, seq) ==
    /\ IF seq THEN ops < MaxSeqOps /\ Quiet ELSE ops < MaxCommentOps
    /\ \/ \E c \in {Hex(2), Hex(3)}, i \in {Hex(1), Hex(2)} :
             loadCurrentUser(r, "createComment", c, i)
       \/ \E c \in {Hex(2), Hex(3)}, i \in {Hex(k) : k \in DOMAIN comments},
             op \in {"updateComment", "deleteComment"} :
             loadCurrentUser(r, op, c, i)

CommentSteps(r, Bodies) ==
    \/ loadIssue(r)
    \/ loadIssueProject(r)
    \/ loadComment(r)
    \/ loadCommentIssue(r)
    \/ loadCommentProject(r)
    \/ requireProjectMemberOrAdmin(r)
    \/ \E body \in Bodies : createComment(r, body)
    \/ createCommentCreate(r)
    \/ createCommentInc(r)
    \/ \E text \in {"undefined"} \cup {b.text : b \in Bodies} : updateComment(r, text)
    \/ updateCommentSave(r)
    \/ deleteComment(r)
    \/ deleteCommentSave(r)
    \/ deleteCommentDec(r)

NextComments ==
    \E r \in Slots : CommentStart(r, FALSE) \/ CommentSteps(r, CommentBodies)

SpecComments == InitComments /\ [][NextComments]_vars

NextCommentsSeq ==
    \E r \in Slots : CommentStart(r, TRUE) \/ CommentSteps(r, CommentBodiesSeq)

SpecCommentsSeq == InitComments /\ [][NextCommentsSeq]_vars

-----------------------------------------------------------------------------
(* SpecAccess: every route, called by every kind of caller: the admin, the *)
(* manager, the developer, a deactivated user, an id of no user, a string  *)
(* that is no id, and no id at all.  Project BT has issue BT-1 with the    *)
(* comments 1 and 2 by the users 3 and 2.  Since then user 3 was pulled    *)
(* out of members by updateMembers, before or after becoming the lead.     *)

InitAccess ==
    /\ InitRest
    /\ \E lead \in {2, 3} :
          projects = (1 :> [ProjectBT EXCEPT !.leadUserId = lead,
                                              !.members = {2},
                                              !.nextIssueSeq = 2])
    /\ issues = (1 :> IssueDoc(1, "BT-1", 2))
    /\ comments = (1 :> CommentA @@ 2 :> CommentB)
    /\ projSeq = 1

AccessCallers == Callers \cup {Ghost, BadStr, Undefined}

ProjectOps == {"getProject", "updateProject", "updateMembers", "deleteProject"}

AccessCreateBodies ==
    [key : {"QA"}, name : {"Bug Tracker"}, leadUserId : {Hex(3)},
     members : {{Hex(2)}, {HexUp(3)}}]

AccessUpdateBodies ==
    [name : {"Tracker"}, description : {"undefined"}, leadUserId : {Hex(3)}]

AccessMemberBodies ==
    {[add |-> {Hex(3)}, remove |-> {}], [add |-> {}, remove |-> {Hex(3)}]}

AccessCommentBodies == [text : {" b "}, parentId : {Hex(1)}]

AccessStart(r) ==
    /\ ops < MaxAccessOps
    /\ \E c \in AccessCallers :
          \/ \E op \in {"createProject", "listProjects"} :
                loadCurrentUser(r, op, c, Undefined)
          \/ \E op \in ProjectOps : loadCurrentUser(r, op, c, Hex(1))
          \/ loadCurrentUser(r, "createComment", c, Hex(1))
          \/ loadCurrentUser(r, "updateComment", c, Hex(2))
          \/ loadCurrentUser(r, "deleteComment", c, Hex(1))

NextAccess ==
    \E r \in Slots :
        \/ AccessStart(r)
        \/ requireRole(r)
        \/ loadProject(r)
        \/ requireProjectLeadOrAdmin(r)
        \/ listProjects(r)
        \/ getProject(r)
        \/ \E body \in AccessCreateBodies : createProject(r, body)
        \/ createProjectExists(r)
        \/ createProjectCreate(r)
        \/ \E body \in AccessUpdateBodies : updateProject(r, body)
        \/ updateProjectUpdate(r)
        \/ updateProjectAddLead(r)
        \/ \E body \in AccessMemberBodies : updateMembers(r, body)
        \/ updateMembersUpdate(r)
        \/ updateMembersRefresh(r)
        \/ deleteProject(r)
        \/ CommentSteps(r, AccessCommentBodies)

SpecAccess == InitAccess /\ [][NextAccess]_vars

-----------------------------------------------------------------------------
(* SpecListing: the listings of a thread while comments are created and    *)
(* soft-deleted.  Issue 1 has the top-level comments 1, 3 and 4, of which  *)
(* 1 and 3 have the same timestamp and 4 is older, and the deleted 5; the  *)
(* replies 2 and 7 to comment 1, and the reply 8 to comment 2.  Comment 6  *)
(* is of issue 2.  SpecPages is the two listings alone on a long thread:   *)
(* 101 top-level comments of issue 1, and 201 replies to comment 1.        *)

InitListing ==
    /\ InitRest
    /\ projects = (1 :> [ProjectBT EXCEPT !.nextIssueSeq = 3])
    /\ issues = (1 :> IssueDoc(1, "BT-1", 6) @@ 2 :> IssueDoc(2, "BT-2", 1))
    /\ LET c(id, issue, parent, anc, at) ==
               [NoComment EXCEPT !._id = id, !.issueId = issue, !.authorId = 2,
                                 !.body = "a", !.parentId = parent,
                                 !.ancestors = anc, !.createdAt = at]
       IN  comments =
                 1 :> c(1, 1, 0, <<>>, 0)   @@ 2 :> c(2, 1, 1, <<1>>, 0)
              @@ 3 :> c(3, 1, 0, <<>>, 0)   @@ 4 :> c(4, 1, 0, <<>>, -1)
              @@ 5 :> [c(5, 1, 0, <<>>, -2) EXCEPT !.deleted = TRUE, !.body = ""]
              @@ 6 :> c(6, 2, 0, <<>>, -1)  @@ 7 :> c(7, 1, 1, <<1>>, -1)
              @@ 8 :> c(8, 1, 2, <<1, 2>>, 0)
    /\ projSeq = 1

InitPages ==
    /\ InitRest
    /\ projects = (1 :> [ProjectBT EXCEPT !.nextIssueSeq = 2])
    /\ issues = (1 :> IssueDoc(1, "BT-1", 302))
    /\ comments =
          [id \in 1..302 |->
              [NoComment EXCEPT !._id = id, !.issueId = 1, !.authorId = 2,
                                !.body = "a",
                                !.parentId = IF id <= 101 THEN 0 ELSE 1,
                                !.ancestors = IF id <= 101 THEN <<>> ELSE <<1>>]]
    /\ projSeq = 1

Queries ==
    [limit : {Absent, Dec(0), Dec(2), Dec(-150), Dec(250)},
     skip : {Absent, Dec(1), Dec(-1)}]

NextListing ==
    \E r \in Slots :
        \/ /\ ops < MaxListOps
           /\ \E c \in {Hex(2), Hex(4)} :
                 \/ loadCurrentUser(r, "listIssueComments", c, Hex(1))
                 \/ loadCurrentUser(r, "listReplies", c, Hex(1))
                 \/ loadCurrentUser(r, "createComment", c, Hex(1))
                 \/ loadCurrentUser(r, "deleteComment", c, Hex(3))
        \/ loadIssue(r)
        \/ loadIssueProject(r)
        \/ loadComment(r)
        \/ loadCommentIssue(r)
        \/ loadCommentProject(r)
        \/ requireProjectMemberOrAdmin(r)
        \/ \E query \in Queries : listIssueComments(r, query)
        \/ \E query \in Queries : listReplies(r, query)
        \/ \E body \in [text : {" b "}, parentId : {Undefined, Hex(1)}] :
              createComment(r, body)
        \/ createCommentCreate(r)
        \/ createCommentInc(r)
        \/ deleteComment(r)
        \/ deleteCommentSave(r)
        \/ deleteCommentDec(r)

SpecListing == InitListing /\ [][NextListing]_vars

NextPages ==
    \E r \in Slots :
        \/ /\ ops < MaxListOps
           /\ \E c \in {Hex(2), Hex(4)}, op \in {"listIssueComments", "listReplies"} :
                 loadCurrentUser(r, op, c, Hex(1))
        \/ loadIssue(r)
        \/ loadIssueProject(r)
        \/ loadComment(r)
        \/ loadCommentIssue(r)
        \/ loadCommentProject(r)
        \/ requireProjectMemberOrAdmin(r)
        \/ \E query \in Queries : listIssueComments(r, query)
        \/ \E query \in Queries : listReplies(r, query)

SpecPages == InitPages /\ [][NextPages]_vars

-----------------------------------------------------------------------------
(* SpecDecide: the access decisions by themselves.  Each is come to with   *)
(* the req.authUser and req.project it is handed, either of which may be   *)
(* missing: requireRole on DELETE /projects/:id, the two gates on GET      *)
(* /projects/:id and POST /projects/:id/members, and canEditOrModerate in  *)
(* updateComment and deleteComment on comment 1.                           *)

Decide(r, op, user, project) ==
    /\ Free(r)
    /\ \A s \in Slots : s < r => ~Free(s)
    /\ req' = [req EXCEPT ![r] =
                 [IdleReq EXCEPT
                    !.op = op,
                    !.pc = CASE op = "deleteProject" -> "requireRole"
                             [] op = "getProject" -> "requireProjectMemberOrAdmin"
                             [] op = "updateMembers" -> "requireProjectLeadOrAdmin"
                             [] OTHER -> op,
                    !.authUser = user, !.project = project,
                    !.issue = IF op \in {"updateComment", "deleteComment"}
                              THEN FindIssue(1) ELSE NoIssue,
                    !.comment = IF op \in {"updateComment", "deleteComment"}
                                THEN FindComment(1) ELSE NoComment]]
    /\ ops' = ops + 1
    /\ UNCHANGED <<store, projSeq, hist>>

NextDecide ==
    \E r \in Slots :
        \/ /\ ops < MaxDecideOps
           /\ \E user \in {NoUser} \cup {FindUser(u) : u \in {1, 2, 3}} :
                 \/ Decide(r, "deleteProject", user, FindProject(1))
                 \/ \E op \in {"getProject", "updateMembers", "updateComment",
                               "deleteComment"},
                       project \in {NoProject, FindProject(1)} :
                       Decide(r, op, user, project)
        \/ requireRole(r)
        \/ requireProjectMemberOrAdmin(r)
        \/ requireProjectLeadOrAdmin(r)
        \/ getProject(r)
        \/ deleteProject(r)
        \/ updateMembers(r, [add |-> {Hex(3)}, remove |-> {}])
        \/ updateMembersUpdate(r)
        \/ updateMembersRefresh(r)
        \/ \E text \in {"undefined", " b "} : updateComment(r, text)
        \/ updateCommentSave(r)
        \/ deleteComment(r)
        \/ deleteCommentSave(r)
        \/ deleteCommentDec(r)

SpecDecide == InitComments /\ [][NextDecide]_vars

-----------------------------------------------------------------------------
(* SpecIssues: the status transitions of the issues BT-1 and BT-2, asked   *)
(* for by the admin, a member and a deactivated user, one request at a     *)
(* time.                                                                   *)

NextIssues ==
    \E r \in Slots :
        \/ /\ ops < MaxIssueOps /\ Quiet
           /\ \E c \in {Hex(1), Hex(3), Hex(4)}, i \in {Hex(1), Hex(2)} :
                 loadCurrentUser(r, "transitionStatus", c, i)
        \/ loadIssue(r)
        \/ loadIssueProject(r)
        \/ requireProjectMemberOrAdmin(r)
        \/ \E to \in {"open", "in_progress", "blocked", "resolved", "closed", "done"} :
              transitionStatus(r, to)

SpecIssues == InitComments /\ [][NextIssues]_vars

-----------------------------------------------------------------------------
(* SpecRace: comment writes by the member, user 3, while the lead or the   *)
(* admin changes the members of project BT.                                *)

NextRace ==
    \E r \in Slots :
        \/ /\ ops < MaxRaceOps
           /\ \/ loadCurrentUser(r, "createComment", Hex(3), Hex(1))
              \/ \E op \in {"updateComment", "deleteComment"} :
                    loadCurrentUser(r, op, Hex(3), Hex(1))
              \/ \E c \in {Hex(1), Hex(2)} :
                    loadCurrentUser(r, "updateMembers", c, Hex(1))
        \/ loadProject(r)
        \/ requireProjectLeadOrAdmin(r)
        \/ \E body \in {[add |-> {}, remove |-> {Hex(3)}],
                         [add |-> {Hex(3)}, remove |-> {}]} : updateMembers(r, body)
        \/ updateMembersUpdate(r)
        \/ updateMembersRefresh(r)
        \/ CommentSteps(r, [text : {" b "}, parentId : {Undefined, Hex(1)}])

SpecRace == InitComments /\ [][NextRace]_vars

-----------------------------------------------------------------------------
(* SpecOrphans: project BT is deleted by the admin while its issues BT-1   *)
(* and BT-2 and their comments stay; the admin, a member, a deactivated    *)
(* user and a caller without identity address them.                        *)

NextOrphans ==
    \E r \in Slots :
        \/ /\ ops < MaxOrphanOps
           /\ \/ loadCurrentUser(r, "deleteProject", Hex(1), Hex(1))
              \/ \E c \in {Hex(1), Hex(3), Hex(4), Undefined} :
                    \/ \E op \in {"createComment", "listIssueComments",
                                   "transitionStatus"} :
                          loadCurrentUser(r, op, c, Hex(1))
                    \/ \E op \in {"listReplies", "updateComment", "deleteComment"} :
                          loadCurrentUser(r, op, c, Hex(1))
        \/ loadProject(r)
        \/ requireRole(r)
        \/ deleteProject(r)
        \/ CommentSteps(r, [text : {" b "}, parentId : {Undefined, Hex(1)}])
        \/ \E query \in {[limit |-> Absent, skip |-> Absent]} :
              listIssueComments(r, query) \/ listReplies(r, query)
        \/ \E to \in {"closed"} : transitionStatus(r, to)

SpecOrphans == InitComments /\ [][NextOrphans]_vars

-----------------------------------------------------------------------------
(* SpecFrame: everything that touches a project at once.  Issues are saved *)
(* for project BT while the admin changes its fields and members or        *)
(* deletes it, a manager creates projects, and the member writes comments. *)

NextFrame ==
    \E r \in Slots :
        \/ /\ ops < MaxFrameOps
           /\ \/ IssueCreate(r, 1, "", "Crash")
              \/ \E op \in {"updateProject", "updateMembers", "deleteProject"} :
                    loadCurrentUser(r, op, Hex(1), Hex(1))
              \/ loadCurrentUser(r, "createProject", Hex(2), Undefined)
              \/ loadCurrentUser(r, "createComment", Hex(3), Hex(1))
              \/ \E op \in {"updateComment", "deleteComment"} :
                    loadCurrentUser(r, op, Hex(3), Hex(1))
        \/ preValidate(r)
        \/ IssueInsert(r)
        \/ requireRole(r)
        \/ loadProject(r)
        \/ requireProjectLeadOrAdmin(r)
        \/ \E body \in KeyCreateBodies : createProject(r, body)
        \/ createProjectExists(r)
        \/ createProjectCreate(r)
        \/ \E body \in GateUpdateBodies : updateProject(r, body)
        \/ updateProjectUpdate(r)
        \/ updateProjectAddLead(r)
        \/ \E body \in {[add |-> {}, remove |-> {Hex(3)}],
                         [add |-> {Hex(1)}, remove |-> {}]} : updateMembers(r, body)
        \/ updateMembersUpdate(r)
        \/ updateMembersRefresh(r)
        \/ deleteProject(r)
        \/ CommentSteps(r, [text : {" b "}, parentId : {Undefined, Hex(1)}])

SpecFrame == InitComments /\ [][NextFrame]_vars

-----------------------------------------------------------------------------
(* Properties.                                                             *)

\* The key generations of project p, and those before the i-th generation.
GensOf(p) == {i \in DOMAIN genLog : genLog[i].pid = p}
GensBefore(i) == {j \in GensOf(genLog[i].pid) : j < i}

\* C1: issue creations against the same project, however they interleave,
\* never capture the same nextIssueSeq value and never generate the same
\* key, and no two stored issues have the same key.
C1_KeysDistinct ==
    /\ \A i, j \in DOMAIN genLog :
          (i # j /\ genLog[i].pid = genLog[j].pid)
             => (genLog[i].seq # genLog[j].seq /\ genLog[i].key # genLog[j].key)
    /\ \A a, b \in DOMAIN issues : a # b => issues[a].key # issues[b].key

\* Two creations against the same project are in flight at once, each with
\* the key it generated.
C1_Witness ==
    \E r1, r2 \in Slots :
        /\ r1 # r2
        /\ req[r1].pc = "issueInsert" /\ req[r2].pc = "issueInsert"
        /\ req[r1].loc # <<>> /\ req[r2].loc # <<>>
        /\ req[r1].issue.projectId = req[r2].issue.projectId

\* C2: a generated key is the project's key, a hyphen and the value the
\* counter had before this generation's increment: the n-th generation of a
\* project gets <key>-n (BT-1, then BT-2), and after k generations the
\* project's nextIssueSeq is k + 1.
C2_KeyIsPreIncrement ==
    /\ \A i \in DOMAIN genLog :
          LET n == Cardinality(GensBefore(i)) + 1
          IN  /\ genLog[i].seq = n
              /\ genLog[i].key = genLog[i].projectKey \o "-" \o ToString(n)
              /\ (genLog[i].projectKey = "BT" /\ n = 1) => genLog[i].key = "BT-1"
              /\ (genLog[i].projectKey = "BT" /\ n = 2) => genLog[i].key = "BT-2"
    /\ \A p \in DOMAIN projects :
          projects[p].nextIssueSeq = Cardinality(GensOf(p)) + 1

\* Project BT has generated BT-1 and BT-2 and its counter stands at 3.
C2_Witness ==
    \E i \in DOMAIN genLog :
        /\ genLog[i].key = "BT-2"
        /\ genLog[i].pid \in DOMAIN projects
        /\ projects[genLog[i].pid].nextIssueSeq = 3

\* C3: once every createProject, updateMembers and updateProject call has
\* completed, every project's lead is one of its members.
C3_LeadInMembersWhenQuiet ==
    (\A r \in Slots : Free(r))
       => \A p \in DOMAIN projects : projects[p].leadUserId \in projects[p].members

\* C4: an updateMembers call whose remove set contains the project's lead is
\* rejected: it never gets past the checks to the update of members.
C4_RemovingLeadRejected ==
    \A r \in Slots :
        req[r].pc = "updateMembers.update"
           => ~RemovesLeadByOid(req[r].body.remove, req[r].project)

CommentsOf(i) == {c \in DOMAIN comments : comments[c].issueId = i}
DeletedOf(i)  == {c \in CommentsOf(i) : comments[c].deleted}

\* C5: with requests handled one at a time, whenever a request has
\* completed every issue's commentCount is the number of its comments
\* created minus the number of them soft-deleted, which is the number of
\* its comments that are not deleted; no comment's deletion is counted twice.
C5_CountConserved ==
    Quiet =>
      /\ \A i \in DOMAIN issues :
            /\ issues[i].commentCount
                  = Cardinality(CommentsOf(i)) - Cardinality(DeletedOf(i))
            /\ issues[i].commentCount
                  = Cardinality({c \in CommentsOf(i) : ~comments[c].deleted})
      /\ \A c \in DOMAIN decLog : decLog[c] = 1 /\ comments[c].deleted

\* A deleteComment on an already deleted comment has been answered 204
\* without a write.
C5_Witness ==
    /\ Quiet
    /\ \E c \in DOMAIN comments : comments[c].deleted
    /\ \E r \in Slots :
          /\ req[r].op = "deleteComment" /\ req[r].status = 204
          /\ ~req[r].wrote

\* C6: for each comment, commentCount is decremented at most once, also
\* when deleteComment requests for it run concurrently.
C6_DecrementAtMostOnce == \A c \in DOMAIN decLog : decLog[c] <= 1

\* C7: a comment without parent has no ancestors, and a comment with
\* parent P has P's ancestors followed by P's id; edits and soft-deletes
\* keep it so.
C7_AncestorsChain ==
    \A c \in DOMAIN comments :
        IF comments[c].parentId = 0 THEN comments[c].ancestors = <<>>
        ELSE /\ comments[c].parentId \in DOMAIN comments
             /\ comments[c].ancestors
                   = Append(comments[comments[c].parentId].ancestors,
                            comments[c].parentId)

\* A reply to the reply 2 was created (ancestors 1, 2) and a comment has
\* been soft-deleted or edited.
C7_Witness ==
    /\ \E c \in DOMAIN comments : comments[c].ancestors = <<1, 2>>
    /\ \E d \in DOMAIN comments : comments[d].deleted \/ comments[d].edited

\* Every stored reply has the issue of its parent.
RepliesInParentIssue ==
    \A c \in DOMAIN comments :
        comments[c].parentId # 0 =>
            /\ comments[c].parentId \in DOMAIN comments
            /\ comments[comments[c].parentId].issueId = comments[c].issueId

\* The createComment step of request r, made with a well-formed parentId:
\* a parent of another issue ends in 400 and a missing parent in 404 (when
\* textOnly: if the body text is not blank), and nothing is stored.
ParentChecked(r, textOnly) ==
    (req[r].pc = "createComment" /\ req'[r].pc # "createComment"
        /\ isValidId(req'[r].body.parentId)
        /\ (textOnly => ~NoText(req'[r].body.text)))
    => LET parent == FindComment(createFromHexString(req'[r].body.parentId))
       IN  /\ (parent._id # 0 /\ parent.issueId # req[r].issue._id)
                 => /\ req'[r].pc = "done" /\ req'[r].status = 400
                    /\ comments' = comments /\ issues' = issues
           /\ parent._id = 0
                 => /\ req'[r].pc = "done" /\ req'[r].status = 404
                    /\ comments' = comments /\ issues' = issues

\* C8 as amended: every stored reply has the issue of its parent; a
\* createComment whose body text is not blank and whose parentId names a
\* comment of another issue ends in 400, one whose parentId names no comment
\* in 404, and neither stores a comment or changes a commentCount.
C8_ReplySameIssue ==
    /\ []RepliesInParentIssue
    /\ [][\A r \in Slots : ParentChecked(r, TRUE)]_vars

\* A createComment on issue 2 naming comment 1 of issue 1 as parent has
\* been answered 400 without a write, and a reply is stored.
C8_Witness ==
    /\ \E r \in Slots :
          /\ req[r].op = "createComment" /\ req[r].pc = "done"
          /\ req[r].status = 400 /\ ~req[r].wrote
          /\ ~NoText(req[r].body.text)
          /\ req[r].body.parentId = Hex(1)
    /\ \E c \in DOMAIN comments : c > 2 /\ comments[c].parentId # 0

\* C8 as claimed: a missing parent ends in 404 whatever else the request
\* carries.
C8_AsClaimed ==
    /\ []RepliesInParentIssue
    /\ [][\A r \in Slots : ParentChecked(r, FALSE)]_vars

\* The users and projects of the store, and those the requests hold.
GateInputs ==
    {<<FindUser(u), projects[p]>> : u \in DOMAIN users, p \in DOMAIN projects}
      \cup {<<req[r].authUser, req[r].project>> : r \in Slots}

\* C9: whenever the lead-or-admin gate allows, the member-or-admin gate
\* allows.
C9_LeadGateImpliesMemberGate ==
    \A x \in GateInputs : LeadGate(x[1], x[2]) = 0 => MemberGate(x[1], x[2]) = 0

\* A lead who is neither admin nor member has passed the lead-or-admin gate.
C9_Witness ==
    \E r \in Slots :
        /\ req[r].pc = "updateProject"
        /\ req[r].authUser.role # "admin"
        /\ req[r].authUser._id \notin req[r].project.members

\* C10: the member-or-admin gate allows exactly the admins, the project's
\* lead (member or not) and the project's members, and answers everyone
\* else 403.
C10_MemberGateExact ==
    \A x \in GateInputs :
        (x[1]._id # 0 /\ x[2]._id # 0) =>
            IF \/ x[1].role = "admin"
               \/ x[1]._id = x[2].leadUserId
               \/ x[1]._id \in x[2].members
            THEN MemberGate(x[1], x[2]) = 0
            ELSE MemberGate(x[1], x[2]) = 403

\* The member-or-admin gate has let a lead through who is not a member, and
\* has answered another user 403.
C10_Witness ==
    /\ \E r \in Slots :
          /\ req[r].pc = "getProject"
          /\ req[r].authUser._id = req[r].project.leadUserId
          /\ req[r].authUser._id \notin req[r].project.members
    /\ \E r \in Slots :
          req[r].op = "getProject" /\ req[r].pc = "done" /\ req[r].status = 403

\* A caller the identity resolver must deny: no id, no well-formed id, the
\* id of no user, or the id of a deactivated user.
BadCaller(c) ==
    \/ ~isValidId(c)
    \/ FindUser(createFromHexString(c))._id = 0
    \/ ~FindUser(createFromHexString(c)).isActive

\* Every change of the store is made by a step of a request in progress.
WritesByRequests ==
    store' # store => \E r \in Slots : ~Free(r) /\ req'[r] # req[r]

\* C11: a request whose caller id is missing or malformed, names no user or
\* names a deactivated user is answered 401 or 403 by loadCurrentUser: it
\* passes no middleware, reaches no gate and no controller, holds no
\* document and writes nothing; the store is changed only by requests in
\* progress, which all have an active user as caller.
C11_BadCallerDenied ==
    /\ [](\A r \in Slots :
            (req[r].caller.form # "none" /\ BadCaller(req[r].caller))
               => /\ req[r].pc = "done" /\ req[r].status \in {401, 403}
                  /\ ~req[r].wrote /\ req[r].trail = <<>> /\ req[r].loc = <<>>
                  /\ req[r].authUser = NoUser /\ req[r].project = NoProject
                  /\ req[r].issue = NoIssue /\ req[r].comment = NoComment)
    /\ [](\A r \in Slots : ~Free(r) => ~BadCaller(req[r].caller))
    /\ [][WritesByRequests]_vars

\* A deactivated user has been denied on a mutating route while another
\* request is in progress.
C11_Witness ==
    \E r1, r2 \in Slots :
        /\ req[r1].caller = Hex(4) /\ req[r1].status = 403
        /\ req[r1].op = "deleteComment" /\ req[r1].pc = "done"
        /\ ~Free(r2)

\* The steps a request has passed when its controller runs.
FullTrail(op) ==
    IF op = "createProject" THEN <<"identity", "verdict">>
    ELSE IF op = "listProjects" THEN <<"identity">>
    ELSE <<"identity", "load", "verdict">>

IsPrefix(s, t) == Len(s) <= Len(t) /\ \A i \in 1..Len(s) : s[i] = t[i]

\* C12: a request passes identity resolution, then the load of its target
\* (createProject has none), then the access verdict, in this order; a step
\* that changes the store is a step of a request that has passed all of
\* them.
C12_StepsInOrder ==
    /\ [](\A r \in Slots : IsPrefix(req[r].trail, FullTrail(req[r].op)))
    /\ [][/\ WritesByRequests
          /\ \A r \in Slots :
                (store' # store /\ req'[r] # req[r])
                   => req[r].trail = FullTrail(req[r].op)]_vars

\* A deleteComment has saved the comment and has the decrement to do, while
\* a createProject has stored its project.
C12_Witness ==
    \E r1, r2 \in Slots :
        /\ req[r1].pc = "deleteComment.dec" /\ req[r1].wrote
        /\ req[r1].trail = <<"identity", "load", "verdict">>
        /\ req[r2].op = "createProject" /\ req[r2].status = 201 /\ req[r2].wrote

\* C13: an updateProject or updateMembers request of a user who is neither
\* admin nor the lead of the project it loaded is answered 403 at the gate
\* and changes nothing; every change these routes make to a project is made
\* for an admin or the lead.
C13_NonLeadForbidden ==
    [][\A r \in Slots :
          /\ (req[r].pc = "requireProjectLeadOrAdmin" /\ req'[r] # req[r]
                /\ req[r].authUser.role # "admin"
                /\ req[r].authUser._id # req[r].project.leadUserId)
             => /\ req'[r].pc = "done" /\ req'[r].status = 403 /\ ~req'[r].wrote
                /\ store' = store
          /\ (req[r].op \in {"updateProject", "updateMembers"}
                /\ req'[r] # req[r] /\ projects' # projects)
             => \/ req[r].authUser.role = "admin"
                \/ req[r].authUser._id = req[r].project.leadUserId]_vars

\* An updateMembers of an active user was stopped by the lead gate, and an
\* updateProject is past it.
C13_Witness ==
    \E r1, r2 \in Slots :
        /\ req[r1].op = "updateMembers" /\ req[r1].pc = "done"
        /\ req[r1].status = 403 /\ req[r1].caller.form = "none"
        /\ req[r2].pc = "updateProject.update"

\* Admin, lead of the project or author of the comment.
AdminLeadOrAuthor(user, project, comment) ==
    \/ user.role = "admin"
    \/ user._id = project.leadUserId
    \/ user._id = comment.authorId

CommentEdits == {"updateComment", "deleteComment"}

\* The steps of an updateComment or deleteComment request r that decide
\* whether it is permitted: the gate of the route, then the controller's
\* check on the comment it finds.  With membersOnly, the gate is expected
\* to stop an author who is not admin, lead or member of the project.
EditPermission(r, membersOnly) ==
    LET q == req[r]
        ok == AdminLeadOrAuthor(q.authUser, q.project, q.comment)
        in == q.authUser.role = "admin" \/ q.authUser._id = q.project.leadUserId
                 \/ q.authUser._id \in q.project.members
    IN  (q.op \in CommentEdits /\ req'[r] # q) =>
          /\ q.pc = "requireProjectMemberOrAdmin" =>
                IF ok /\ (membersOnly => in)
                THEN req'[r].pc = q.op /\ store' = store
                ELSE (~ok \/ membersOnly) =>
                        /\ req'[r].pc \in {"done", q.op}
                        /\ req'[r].pc = "done" => req'[r].status = 403
                        /\ (membersOnly /\ ~in) => req'[r].pc = "done"
                        /\ store' = store
          /\ (q.pc = q.op /\ FindComment(q.comment._id)._id # 0) =>
                IF ok THEN req'[r].status # 403
                ELSE /\ req'[r].pc = "done" /\ req'[r].status = 403
                     /\ ~req'[r].wrote /\ store' = store
          /\ store' # store => ok

\* C14 as amended: updateComment and deleteComment are permitted only for
\* an admin, the project's lead or the comment's author, and for a caller
\* who is admin, lead or member of the project exactly for these; an author
\* who is none of the three is answered 403 by the route's gate.  A caller
\* who is not permitted gets 403 and the comment and the issue's
\* commentCount are unchanged.
C14_EditByAdminLeadAuthor == [][\A r \in Slots : EditPermission(r, TRUE)]_vars

\* The author of comment 2, a member who is neither admin nor lead, is
\* about to save his edit, and another caller's request was answered 403.
C14_Witness ==
    \E r1, r2 \in Slots :
        /\ req[r1].pc = "updateComment.save"
        /\ req[r1].authUser._id = req[r1].comment.authorId
        /\ req[r1].authUser.role # "admin"
        /\ req[r1].authUser._id # req[r1].project.leadUserId
        /\ req[r2].op \in CommentEdits /\ req[r2].pc = "done"
        /\ req[r2].status = 403 /\ req[r2].caller.form = "none"

\* C14 as claimed: updateComment and deleteComment are permitted exactly
\* for an admin, the project's lead and the comment's author.
C14_AsClaimed == [][\A r \in Slots : EditPermission(r, FALSE)]_vars

\* C15: a createProject request of a user who is neither admin nor manager
\* is answered 403 and nothing is stored; a project is created only for an
\* admin or a manager, and as created its lead is among its members, its
\* members are existing users, each once, and its nextIssueSeq is 1.
C15_CreateProject ==
    [][\A r \in Slots :
          (req[r].op = "createProject" /\ req'[r] # req[r]) =>
            /\ (req[r].pc = "requireRole"
                  /\ req[r].authUser.role \notin {"admin", "manager"})
               => /\ req'[r].pc = "done" /\ req'[r].status = 403
                  /\ ~req'[r].wrote /\ store' = store
            /\ req'[r].status = 201 => projects' # projects
            /\ projects' # projects =>
                 LET new == projects'[projSeq']
                     ids == {req[r].body.leadUserId} \cup req[r].body.members
                 IN  /\ req[r].authUser.role \in {"admin", "manager"}
                     /\ req'[r].status = 201
                     /\ DOMAIN projects' = DOMAIN projects \cup {projSeq'}
                     /\ projSeq' \notin DOMAIN projects
                     /\ \A p \in DOMAIN projects : projects'[p] = projects[p]
                     /\ new.leadUserId \in new.members
                     /\ new.members \subseteq DOMAIN users
                     /\ Cardinality(new.members) = Cardinality(ids)
                     /\ new.nextIssueSeq = 1]_vars

\* The manager's project QA is stored, with the lead folded into members,
\* and a developer's createProject was answered 403.
C15_Witness ==
    /\ \E p \in DOMAIN projects :
          /\ projects[p].key = "QA" /\ projects[p].leadUserId = 3
          /\ projects[p].members = {2, 3} /\ projects[p].nextIssueSeq = 1
    /\ \E r1, r2 \in Slots :
          /\ req[r1].op = "createProject" /\ req[r1].status = 201 /\ req[r1].wrote
          /\ req[r2].op = "createProject" /\ req[r2].status = 403
          /\ req[r2].caller.form = "none"

\* C16: a createProject whose key is the key of a stored project, when it
\* looks the key up or when it inserts, is answered 409 and stores nothing;
\* no two stored projects have the same key.
C16_DuplicateKeyConflict ==
    /\ [](\A p1, p2 \in DOMAIN projects :
             p1 # p2 => projects[p1].key # projects[p2].key)
    /\ [][\A r \in Slots :
             (req[r].pc \in {"createProject.exists", "createProject.create"}
                /\ req'[r] # req[r]
                /\ \E p \in DOMAIN projects : projects[p].key = req[r].body.key)
             => /\ req'[r].pc = "done" /\ req'[r].status = 409
                /\ projects' = projects]_vars

\* C17: a deleteProject request of a user who is not admin, the project's
\* lead included, is answered 403 and nothing is changed; deleteProject
\* changes the store only for an admin, and then removes the project
\* document it loaded and nothing else: every other project, every issue
\* and every comment is as before.
C17_DeleteProject ==
    [][\A r \in Slots :
          (req[r].op = "deleteProject" /\ req'[r] # req[r]) =>
            /\ (req[r].pc = "requireRole" /\ req[r].authUser.role # "admin")
               => /\ req'[r].pc = "done" /\ req'[r].status = 403
                  /\ ~req'[r].wrote /\ store' = store
            /\ (req[r].pc = "deleteProject" \/ store' # store) =>
                  /\ req[r].authUser.role = "admin"
                  /\ req'[r].status = 204
                  /\ DOMAIN projects' = DOMAIN projects \ {req[r].project._id}
                  /\ \A p \in DOMAIN projects' : projects'[p] = projects[p]
                  /\ users' = users /\ issues' = issues /\ comments' = comments]_vars

\* The admin has deleted project 1, whose issue and comments are still
\* stored, and the lead's deleteProject was answered 403.
C17_Witness ==
    /\ 1 \notin DOMAIN projects
    /\ 1 \in DOMAIN issues /\ issues[1].projectId = 1
    /\ {1, 2} \subseteq DOMAIN comments
    /\ \E r1, r2 \in Slots :
          /\ req[r1].op = "deleteProject" /\ req[r1].status = 204 /\ req[r1].wrote
          /\ req[r2].op = "deleteProject" /\ req[r2].status = 403
          /\ req[r2].caller.form = "none"

\* C18: listProjects lists a project for a user exactly if the
\* member-or-admin gate allows the user on the project: for an admin every
\* project, for another user the projects he leads or is a member of.
C18_ListMatchesGate ==
    /\ [](\A u \in DOMAIN users, p \in DOMAIN projects :
             /\ p \in ListedFor(FindUser(u))
                   <=> MemberGate(FindUser(u), projects[p]) = 0
             /\ users[u].role = "admin" => ListedFor(FindUser(u)) = DOMAIN projects
             /\ users[u].role # "admin" =>
                   (p \in ListedFor(FindUser(u))
                       <=> (u = projects[p].leadUserId \/ u \in projects[p].members)))
    /\ [][\A r \in Slots :
             (req[r].pc = "listProjects" /\ req'[r] # req[r]) =>
                /\ req'[r].status = 200 /\ store' = store
                /\ req'[r].loc =
                     <<{p \in DOMAIN projects :
                          MemberGate(req[r].authUser, projects[p]) = 0}>>]_vars

\* A lead who is neither admin nor member got his project listed.
C18_Witness ==
    \E r \in Slots, p \in DOMAIN projects :
        /\ req[r].op = "listProjects" /\ req[r].status = 200
        /\ req[r].loc = <<{p}>>
        /\ req[r].authUser.role # "admin"
        /\ req[r].authUser._id = projects[p].leadUserId
        /\ req[r].authUser._id \notin projects[p].members

\* The fields of a comment that place it in its thread.
Place(c) == <<c._id, c.issueId, c.authorId, c.parentId, c.ancestors>>

C20_DeleteIdempotent ==
    [][\A r \in Slots :
          (req[r].op = "deleteComment" /\ req'[r] # req[r]) =>
            /\ req[r].pc = "deleteComment.dec" => req'[r].status = 204
            /\ (req[r].pc \in {"loadComment", "loadComment.issue",
                               "loadComment.project",
                               "requireProjectMemberOrAdmin", "deleteComment"}
                  /\ FindComment(createFromHexString(req[r].id)).deleted)
               => /\ store' = store /\ decLog' = decLog
                  /\ ~req'[r].wrote
                  /\ (req[r].pc = "deleteComment"
                        /\ AdminLeadOrAuthor(req[r].authUser, req[r].project,
                                             req[r].comment))
                     => req'[r].pc = "done" /\ req'[r].status = 204]_vars

\* Comment 2 was deleted, its issue's commentCount decremented once, and a
\* second deleteComment was answered 204 without a write.
C20_Witness ==
    /\ Quiet
    /\ comments[2].deleted /\ ~comments[1].deleted
    /\ 2 \in DOMAIN decLog /\ decLog[2] = 1
    /\ issues[1].commentCount = 1
    /\ \E r \in Slots :
          req[r].op = "deleteComment" /\ req[r].status = 204 /\ ~req[r].wrote

\* The steps of an updateComment request r from its controller on.  The
\* body stored is the text sent (asSent) or that text trimmed.
EditContract(r, asSent) ==
    LET q == req[r]
        id == q.comment._id
        empty(t) == t = "undefined" \/ Trim(t) = ""
    IN  (q.op = "updateComment" /\ req'[r] # q) =>
          /\ q.pc = "updateComment.save" =>
                LET text == q.body.text
                    body == IF asSent THEN text ELSE Trim(text)
                IN  /\ ~empty(text)
                    /\ req'[r].status = 200
                    /\ comments' = [comments EXCEPT ![id] =
                                       [@ EXCEPT !.body = body, !.edited = TRUE]]
                    /\ users' = users /\ projects' = projects /\ issues' = issues
          /\ q.pc = "updateComment" =>
                /\ store' = store
                /\ (FindComment(id)._id # 0
                      /\ AdminLeadOrAuthor(q.authUser, q.project, FindComment(id)))
                   => IF empty(req'[r].body.text)
                      THEN req'[r].pc = "done" /\ req'[r].status = 400
                      ELSE req'[r].pc = "updateComment.save"

C22_ListingsCapped ==
    \A r \in Slots :
        (req[r].pc = "done" /\ req[r].status = 200) =>
            /\ req[r].op = "listIssueComments" => Len(req[r].loc[1]) <= 100
            /\ req[r].op = "listReplies" => Len(req[r].loc[1]) <= 200

\* The listIssueComments step of request r: every comment listed is a
\* top-level comment of the requested issue that is not deleted, and stands
\* where the order by creation time, then id, puts it: the i-th comment
\* listed has exactly skip + i - 1 such comments before it.  For a limit
\* from 1 to 100 (20 when none is given) the page is full unless the
\* comments run out.  Nothing is written.
TopLevelPage(r) ==
    LET q    == req[r]
        res  == req'[r].loc[1]
        M    == {c \in DOMAIN comments :
                   /\ comments[c].issueId = q.issue._id
                   /\ comments[c].parentId = 0
                   /\ ~comments[c].deleted}
        earlier(d, c) ==
            \/ comments[d].createdAt < comments[c].createdAt
            \/ comments[d].createdAt = comments[c].createdAt /\ d < c
        query == req'[r].body
        skip == IF query.skip.given /\ query.skip.n > 0 THEN query.skip.n ELSE 0
        lim  == IF query.limit.given THEN query.limit.n ELSE 20
        left == IF Cardinality(M) > skip THEN Cardinality(M) - skip ELSE 0
    IN  (q.pc = "listIssueComments" /\ req'[r] # q) =>
          /\ req'[r].pc = "done" /\ req'[r].status = 200 /\ store' = store
          /\ \A i \in 1..Len(res) :
                /\ res[i] \in M
                /\ Cardinality({d \in M : earlier(d, res[i])}) = skip + i - 1
          /\ lim \in 1..100 => Len(res) = (IF lim < left THEN lim ELSE left)

\* C23: listIssueComments returns only top-level comments of the requested
\* issue that are not deleted, in the order of creation time with ties
\* broken by id; two listings with the same skip and limit, answered with
\* no write between them (here: while the eight comments of the start are
\* all there are and none but comment 5 is deleted), return the same
\* sequence.
C23_ListingOrdered ==
    /\ [][\A r \in Slots : TopLevelPage(r)]_vars
    /\ [](\A r1, r2 \in Slots :
            (/\ DOMAIN comments = 1..8
             /\ \A c \in DOMAIN comments : comments[c].deleted = (c = 5)
             /\ req[r1].op = "listIssueComments" /\ req[r1].status = 200
             /\ req[r2].op = "listIssueComments" /\ req[r2].status = 200
             /\ req[r1].id = req[r2].id /\ req[r1].body = req[r2].body)
            => req[r1].loc = req[r2].loc)

\* Two listings of issue 1 were answered with comment 4, the oldest, first
\* and then the comments 1 and 3 of the same timestamp.
C23_Witness ==
    /\ \A r \in Slots :
          /\ req[r].op = "listIssueComments" /\ req[r].status = 200
          /\ req[r].loc = << <<4, 1, 3>> >>
    /\ \E r \in Slots : req[r].body.limit = Dec(0)

\* C24: every access decision answers a missing user, and a missing project
\* where it takes one, with a condition of its own, which is not the 403 of
\* a denial and not permission: requireRole, the two project gates and the
\* check of updateComment and deleteComment.
C24_ContextMissingDistinct ==
    [][\A r \in Slots :
          (/\ req'[r] # req[r]
           /\ req[r].pc \in {"requireRole", "requireProjectMemberOrAdmin",
                             "requireProjectLeadOrAdmin", "updateComment",
                             "deleteComment"}
           /\ \/ req[r].authUser._id = 0
              \/ req[r].pc # "requireRole" /\ req[r].project._id = 0)
          => /\ req'[r].pc = "done" /\ req'[r].status # 403
             /\ store' = store]_vars

\* C25: when the project of a new issue without a key is not found as the
\* key is generated, the save fails there: nothing is stored, no key is
\* generated and no issue is inserted; every stored issue has a key.
C25_NoProjectNoIssue ==
    /\ [](\A i \in DOMAIN issues : issues[i].key # "")
    /\ [][\A r \in Slots :
             (/\ req[r].pc = "preValidate" /\ req'[r] # req[r]
              /\ req[r].issue.key = ""
              /\ req[r].issue.projectId \notin DOMAIN projects)
             => /\ req'[r].pc = "done" /\ req'[r].status = 500
                /\ store' = store /\ genLog' = genLog]_vars

\* The save of a new issue failed for want of its project, which a
\* deleteProject handled at the same time had removed; an issue is stored.
C25_Witness ==
    /\ issues # <<>>
    /\ \E r1, r2 \in Slots :
          /\ req[r1].op = "issueSave" /\ req[r1].pc = "done"
          /\ req[r1].status = 500 /\ ~req[r1].wrote
          /\ req[r1].issue.key = "" /\ req[r1].issue.projectId = 1
          /\ 1 \notin DOMAIN projects
          /\ req[r2].op = "deleteProject" /\ req[r2].status = 204

\* C26: the key of an issue is assigned once.  When a document that has a
\* key is validated, be it a new document that came with a key or a stored
\* issue saved again, its key stays and no project's nextIssueSeq is
\* incremented; the insert stores the key the document has, and no step
\* changes the key of a stored issue.
C26_KeyAssignedOnce ==
    [][/\ \A i \in DOMAIN issues :
             i \in DOMAIN issues' /\ issues'[i].key = issues[i].key
       /\ \A r \in Slots :
             (req[r].op = "issueSave" /\ req'[r] # req[r]) =>
                /\ (req[r].pc = "preValidate" /\ req[r].issue.key # "") =>
                      /\ req'[r].pc = "issueInsert"
                      /\ req'[r].issue.key = req[r].issue.key
                      /\ projects' = projects /\ genLog' = genLog
                /\ req[r].pc = "issueInsert" =>
                      /\ projects' = projects /\ genLog' = genLog
                      /\ req'[r].status = 201 =>
                            \E i \in DOMAIN issues' \ DOMAIN issues :
                               issues'[i].key = req[r].issue.key]_vars

\* An issue that came with the key BT-2 is stored under it and was saved
\* again; project BT has generated no key and its counter stands at 1.
C26_Witness ==
    /\ \E i \in DOMAIN issues : issues[i].key = "BT-2"
    /\ \E r \in Slots :
          req[r].op = "issueSave" /\ req[r].pc = "done" /\ req[r].status = 200
    /\ genLog = <<>>
    /\ 1 \in DOMAIN projects /\ projects[1].nextIssueSeq = 1

C28_DecidedOnCurrentDocuments ==
    [][\A r \in Slots :
         LET q == req[r]
             n == req'[r]
             alone == \A s \in Slots \ {r} : req[s].pc = "idle"
             uid == q.authUser._id
             pid == q.project._id
             admin == users[uid].role = "admin"
             lead == projects[pid].leadUserId = uid
             member == uid \in projects[pid].members
             decided(allowed) ==
                 /\ uid \in DOMAIN users /\ pid \in DOMAIN projects
                 /\ IF allowed THEN n.pc = q.op
                    ELSE n.pc = "done" /\ n.status = 403
                 /\ store' = store
         IN  /\ (q.pc \in {"idle", "done"} /\ n.pc \notin {"idle", "done"}) =>
                   /\ n.authUser._id = createFromHexString(n.caller)
                   /\ n.authUser._id \in DOMAIN users
                   /\ n.authUser.role = users[n.authUser._id].role
                   /\ n.authUser.isActive = users[n.authUser._id].isActive
             /\ (q.pc = "loadProject" /\ n.pc \notin {"loadProject", "done"}) =>
                   /\ createFromHexString(q.id) \in DOMAIN projects
                   /\ n.project = projects[createFromHexString(q.id)]
             /\ (q.pc = "requireProjectMemberOrAdmin" /\ n # q /\ alone) =>
                   decided(admin \/ lead \/ member)
             /\ (q.pc = "requireProjectLeadOrAdmin" /\ n # q /\ alone) =>
                   decided(admin \/ lead)]_vars

\* User 3, a member of project BT as it was created, was removed from its
\* members by a request that completed; the next request, user 3 reading the
\* project, was answered 403.
C28_Witness ==
    /\ req[2].pc = "idle"
    /\ req[1].op = "getProject" /\ req[1].pc = "done" /\ req[1].status = 403
    /\ projects[1].leadUserId = 2
    /\ projects[1].members = {2}

\* C29: the store step of an updateMembers call with add set A and remove set
\* R changes members to (members \cup A) \ R and the call goes on to its
\* answer, also when A and R are both non-empty.
C29_UnionDifferenceInOneStep ==
    [][\A r \in Slots :
         LET q == req[r]
             A == {createFromHexString(s) : s \in Ids(q.body.add)}
             R == {createFromHexString(s) : s \in Ids(q.body.remove)}
             pid == q.project._id
         IN  (q.pc = "updateMembers.update" /\ req'[r] # q) =>
                /\ req'[r].pc = "updateMembers.refresh"
                /\ projects'[pid].members = (projects[pid].members \cup A) \ R]_vars

\* C30: updateMembers checks every id of the union of its add and remove sets
\* (the entries that are not absent) before it changes anything: when one of
\* them is malformed or names no user, the call is answered 400 at that
\* check, has written nothing, and the projects (their members sets
\* included) are as they were.
C30_UnknownIdsRejectedFirst ==
    [][\A r \in Slots :
         LET q == req[r]
             n == req'[r]
             allIds == Ids(n.body.add) \cup Ids(n.body.remove)
             unknown(id) == id.form \notin {"lower", "upper"}
                              \/ id.oid \notin DOMAIN users
         IN  (q.pc = "updateMembers" /\ n # q /\ \E id \in allIds : unknown(id)) =>
                /\ n.pc = "done" /\ n.status = 400
                /\ ~n.wrote
                /\ projects' = projects]_vars

\* A call that adds an id naming no user and removes member 3 was answered
\* 400; user 3 is still a member of project BT.
C30_Witness ==
    \E r \in Slots :
        /\ req[r].op = "updateMembers" /\ req[r].pc = "done" /\ req[r].status = 400
        /\ req[r].body = [add |-> {Ghost}, remove |-> {Hex(3)}]
        /\ projects[1].members = {2, 3}

\* C31: the lead missing from members is a transient state.  Whenever a
\* lead-changing updateProject has written the new leadUserId (its request is
\* at the follow-up step) and requests run to completion, project BT reaches
\* and from then on stays in a state where its lead is one of its members,
\* whatever other requests interleave.
C31_LeadRejoinsMembers ==
    \A r \in Slots :
        (req[r].pc = "updateProject.addLead")
           ~> [](projects[1].leadUserId \in projects[1].members)

\* C32: an issue save that is rejected for invalid input (here: no title)
\* mutates nothing: no issue is stored, and the save has not incremented the
\* project's nextIssueSeq nor generated a key.
C32_RejectedSaveMutatesNothing ==
    [][\A r \in Slots :
         LET q == req[r]
             n == req'[r]
         IN  (q.pc = "issueInsert" /\ q.body.title = "" /\ n # q) =>
                /\ n.pc = "done" /\ n.status >= 400
                /\ issues' = issues
                /\ ~n.wrote
                /\ q.loc = <<>>]_vars

\* C33: createComment increments the issue's commentCount only after the
\* comment document is created.  In every reachable state, for every issue,
\* the increments applied (the counter plus the decrements applied to it)
\* are at most the comments stored for the issue; precisely, the comments
\* stored are the increments applied plus the requests that have created
\* their comment and not yet incremented.  A request that stops between the
\* two steps thus leaves its comment stored and the counter one short.
C33_IncrementAfterCreate ==
    \A i \in DOMAIN issues :
        LET RECURSIVE Decs(_)
            Decs(S) == IF S = {} THEN 0
                       ELSE LET c == CHOOSE x \in S : TRUE
                            IN  decLog[c] + Decs(S \ {c})
            decs == Decs({c \in DOMAIN decLog : comments[c].issueId = i})
            incs == issues[i].commentCount + decs
            stored == Cardinality({c \in DOMAIN comments : comments[c].issueId = i})
            between == Cardinality({r \in Slots : /\ req[r].pc = "createComment.inc"
                                                  /\ req[r].issue._id = i})
        IN  /\ incs <= stored
            /\ stored = incs + between

\* A createComment on issue 1 has created its comment, the third of the
\* issue, and has not yet incremented the counter, which stands at 2; no
\* other request is being handled.
C33_Witness ==
    \E r \in Slots :
        /\ req[r].pc = "createComment.inc" /\ req[r].issue._id = 1
        /\ \A s \in Slots \ {r} : Free(s)
        /\ issues[1].commentCount = 2
        /\ Cardinality({c \in DOMAIN comments : comments[c].issueId = 1}) = 3

\* C34: in every reachable state, every comment with deleted = true has an
\* empty body, whatever updateComment and deleteComment requests were made.
C34_DeletedHasNoBody ==
    \A c \in DOMAIN comments : comments[c].deleted => comments[c].body = ""

\* C35: in every reachable state, under any interleaving of createComment
\* and deleteComment requests, every issue's commentCount is at least 0.
C35_CountNotNegative ==
    \A i \in DOMAIN issues : issues[i].commentCount >= 0

\* C36: no write to a project's issues or comments by createComment,
\* updateComment or deleteComment is applied for a user who, at the moment
\* the write is applied, is not admin, lead or member of the project, also
\* when an updateMembers removal of the user runs at the same time.
C36_WritesByParticipantsOnly ==
    [][\A r \in Slots :
         LET q == req[r]
             uid == q.authUser._id
             pid == q.project._id
         IN  (/\ q.op \in {"createComment", "updateComment", "deleteComment"}
              /\ req'[r] # q
              /\ (comments' # comments \/ issues' # issues))
             => /\ pid \in DOMAIN projects
                /\ \/ users[uid].role = "admin"
                   \/ projects[pid].leadUserId = uid
                   \/ uid \in projects[pid].members]_vars

\* The operations addressed to an issue or to a comment.
OrphanOps == {"createComment", "listIssueComments", "listReplies",
              "updateComment", "deleteComment", "transitionStatus"}

\* What C37 says of one step of a request r on an issue or comment of
\* project BT.  A loader that looks for the project and finds none in the
\* store answers 404.  Once BT is deleted, a request that began after the
\* deletion (no other request was ever handled beside it) writes nothing,
\* never gets past its loader, and is answered 404; with anyCaller this is
\* said of every caller, otherwise of the callers the identity check lets
\* through, the others being answered 401 or 403 by that check.
AfterDeletion(r, anyCaller) ==
    LET q == req[r]
        n == req'[r]
        alone == \A s \in Slots \ {r} : req[s].pc = "idle"
        arrives == q.pc \in {"idle", "done"}
    IN  (n.op \in OrphanOps /\ n # q) =>
          /\ (q.pc \in {"loadIssue.project", "loadComment.project"}
                 /\ q.issue.projectId \notin DOMAIN projects)
              => (n.pc = "done" /\ n.status = 404 /\ store' = store)
          /\ (alone /\ DOMAIN projects = {}) =>
                /\ store' = store
                /\ \A i \in DOMAIN n.trail : n.trail[i] # "load"
                /\ n.pc = "done" =>
                      IF arrives /\ ~anyCaller THEN n.status \in {401, 403}
                      ELSE n.status = 404

\* C37: after deleteProject, every operation addressed to an issue of the
\* deleted project or to a comment of such an issue ends in not-found for
\* every caller the identity check lets through, admins included, and
\* mutates nothing.
C37_OrphansNotFound == [][\A r \in Slots : AfterDeletion(r, FALSE)]_vars

\* Project BT was deleted; the next request, an edit of comment 1, was
\* answered 404 and the comments are as they were.
C37_Witness ==
    /\ DOMAIN projects = {}
    /\ req[2].pc = "idle"
    /\ req[1].op = "updateComment" /\ req[1].pc = "done" /\ req[1].status = 404
    /\ comments = (1 :> CommentA @@ 2 :> CommentB)

\* C37 as claimed: not-found for every caller.
C37_AsClaimed == [][\A r \in Slots : AfterDeletion(r, TRUE)]_vars

\* C38: whatever projects were created and deleted and whatever issues were
\* saved, with or without a key of their own, the key the hook generates
\* for a new issue is not the key of an issue already stored, so that the
\* insert of an issue with a generated key never fails on the unique index.
C38_GeneratedKeyIsNew ==
    [][\A r \in Slots :
         LET q == req[r]
             n == req'[r]
         IN  /\ (q.pc = "preValidate" /\ q.issue.key = "" /\ n.pc = "issueInsert")
                => \A i \in DOMAIN issues : issues[i].key # n.issue.key
             /\ (q.pc = "issueInsert" /\ q.loc # <<>> /\ q.body.title # "" /\ n # q)
                => n.status = 201]_vars

\* C39: a project's nextIssueSeq is at least 1 and never decreases, and its
\* key never changes after creation; updateProject, updateMembers and the
\* comment operations leave both unchanged, and updateProject never removes
\* an element from members; every key generated for a project that exists
\* is <project key>-<n> with 1 <= n < nextIssueSeq.
C39_ProjectFrame ==
    /\ [](\A p \in DOMAIN projects : projects[p].nextIssueSeq >= 1)
    /\ [](\A i \in DOMAIN genLog :
            genLog[i].pid \in DOMAIN projects =>
               LET project == projects[genLog[i].pid]
               IN  /\ genLog[i].key = project.key \o "-" \o ToString(genLog[i].seq)
                   /\ 1 <= genLog[i].seq
                   /\ genLog[i].seq < project.nextIssueSeq)
    /\ [][\A p \in DOMAIN projects \cap DOMAIN projects' :
            /\ projects'[p].nextIssueSeq >= projects[p].nextIssueSeq
            /\ projects'[p].key = projects[p].key]_vars
    /\ [][\A r \in Slots :
            (/\ req'[r] # req[r]
             /\ req[r].op \in {"updateProject", "updateMembers", "createComment",
                               "updateComment", "deleteComment"}
             /\ req[r].pc # "done")
            => /\ DOMAIN projects' = DOMAIN projects
               /\ \A p \in DOMAIN projects :
                     /\ projects'[p].nextIssueSeq = projects[p].nextIssueSeq
                     /\ projects'[p].key = projects[p].key
                     /\ req[r].op = "updateProject"
                           => projects[p].members \subseteq projects'[p].members]_vars

\* Project BT has generated BT-3 and stands at 4, and an updateProject has
\* renamed it and made user 3 its lead.
C39_Witness ==
    /\ \E i \in DOMAIN genLog : genLog[i].key = "BT-3"
    /\ 1 \in DOMAIN projects
    /\ projects[1].nextIssueSeq = 4 /\ projects[1].key = "BT"
    /\ projects[1].name = "Tracker" /\ projects[1].leadUserId = 3
    /\ \E r \in Slots : req[r].op = "updateProject" /\ req[r].status = 200

\* C40: in every reachable state the comment threads are well formed: for
\* every comment, ancestors is empty exactly when it has no parent, and
\* otherwise ends with the parent's id; every id in ancestors names a stored
\* comment of the same issue; and no comment is among its own ancestors.
C40_ThreadsWellFormed ==
    \A c \in DOMAIN comments :
        LET doc == comments[c]
            n == Len(doc.ancestors)
        IN  /\ (n = 0) <=> (doc.parentId = 0)
            /\ n > 0 => doc.ancestors[n] = doc.parentId
            /\ \A k \in 1..n :
                  /\ doc.ancestors[k] \in DOMAIN comments
                  /\ comments[doc.ancestors[k]].issueId = doc.issueId
                  /\ doc.ancestors[k] # c

\* A reply to the reply 2 is stored, two levels below comment 1, and comment
\* 1, the root of the thread, has been soft-deleted.
C40_Witness ==
    /\ \E c \in DOMAIN comments :
          comments[c].parentId = 2 /\ Len(comments[c].ancestors) = 2
    /\ comments[1].deleted

====
